---- MODULE Spec2Model ----
(***************************************************************************)
(* Model of the host-side USB library of src/index.ts: the descriptor      *)
(* object model (Device / Interface / Endpoint), the per-endpoint          *)
(* streaming pool (startPoll / stopPoll / transferDone) and the single     *)
(* transfer paths, on top of a native transfer engine that is modelled by  *)
(* its contract (spec.md section 6): it accepts or rejects a submit, and   *)
(* completes every accepted transfer once.                                 *)
(***************************************************************************)
EXTENDS Integers, Sequences, FiniteSets, TLC

(***************************************************************************)
(* Bounds of the model.                                                    *)
(***************************************************************************)
MaxPoll == 1        \* largest explicit nTransfers argument of startPoll
MaxSize == 1        \* largest explicit transferSize argument of startPoll
MaxObj == 3         \* Endpoint objects alive at the same time
MaxCalls == 2       \* single transfers submitted in one run
MaxLen == 2         \* largest buffer given to transferWithZLP
MaxBuf == 257       \* largest data stage of a control transfer that is built in full
MaxCaps == 2        \* capability records in a BOS buffer
MaxBosCalls == 2    \* getBosDescriptor calls that overlap
MaxListeners == 2   \* listeners on usb for one event name

(***************************************************************************)
(* Program constants.                                                      *)
(***************************************************************************)
DefaultNTransfers == 3           \* nTransfers || 3
LIBUSB_ENDPOINT_IN == 128        \* direction bit of bEndpointAddress
SETUP_SIZE == 8                  \* usb.LIBUSB_CONTROL_SETUP_SIZE
LIBUSB_DT_BOS_SIZE == 5          \* usb.LIBUSB_DT_BOS_SIZE, the size of the BOS header
BcdUsb201 == 513                 \* 0x201, the first bcdUSB with a BOS descriptor

(***************************************************************************)
(* The device: its configuration descriptors, as the native layer returns  *)
(* them.  ConfigDescriptors[c].interfaces[k][a + 1] is alternate setting a *)
(* of the interface at index k - 1 of configuration c.  In configuration 2 *)
(* the interface number differs from the position in the list.             *)
(***************************************************************************)
EpDesc(addr, mps) == [bEndpointAddress |-> addr, wMaxPacketSize |-> mps]

AltDesc(num, eps) == [bInterfaceNumber |-> num, endpoints |-> eps]

ConfigDescriptors ==
    <<  [interfaces |->
            << << AltDesc(0, << EpDesc(129, 2), EpDesc(1, 2) >>),
                  AltDesc(0, << EpDesc(130, 2) >>) >>,
               << AltDesc(1, << >>) >> >>],
        [interfaces |->
            << << AltDesc(1, << EpDesc(131, 2) >>) >> >>] >>

ConfigValues == 1..Len(ConfigDescriptors)

\* the positions of the Interface objects in Device.interfaces
IfcPositions == UNION {1..Len(ConfigDescriptors[c].interfaces) : c \in ConfigValues}

\* the alternate settings a descriptor may declare for an interface
AltSettings ==
    UNION {UNION {0..(Len(ConfigDescriptors[c].interfaces[k]) - 1) :
                    k \in 1..Len(ConfigDescriptors[c].interfaces)} : c \in ConfigValues}

\* configuration cfg declares alternate setting alt for the interface at index id
HasDescriptor(cfg, id, alt) ==
    /\ id + 1 \in 1..Len(ConfigDescriptors[cfg].interfaces)
    /\ alt + 1 \in 1..Len(ConfigDescriptors[cfg].interfaces[id + 1])

\* native: configuration cfg has an interface numbered num with alternate setting alt
NativeHasAltSetting(cfg, num, alt) ==
    \E k \in 1..Len(ConfigDescriptors[cfg].interfaces) :
        /\ ConfigDescriptors[cfg].interfaces[k][1].bInterfaceNumber = num
        /\ alt + 1 \in 1..Len(ConfigDescriptors[cfg].interfaces[k])

ObjIds == 1..MaxObj

VARIABLES
    activeConfig,       \* native: the configuration value the device is in
    configDescriptor,   \* Device._configDescriptor: 0 = not cached, else the value cached
    opened,             \* Device.interfaces is an array (not null / undefined)
    interfaces,         \* Device.interfaces: sequence of Interface objects
    endpoints,          \* heap of Endpoint objects, by object id
    pending,            \* native asynchronous calls whose callback has not run
    releases,           \* the release(closeEndpoints) calls waiting for 'end' events
    emitted,            \* events emitted by the last step, in order
    cancels,            \* number of Transfer.cancel() calls made by the last step
    nativeLog,          \* native interface calls issued by the last step, in order
    calls,              \* the single transfers made so far, in order of submission
    reads,              \* Device._allConfigDescriptors and the reads of the descriptor getters
    codec,              \* a controlTransfer call: its arguments, buffer and delivered payload
    bos,                \* Device._bosDescriptor and the getBosDescriptor calls
    hotplug,            \* hotplugListeners, the listeners on usb and the native notifications
    last                \* the last operation, its arguments and its outcome

vars == << activeConfig, configDescriptor, opened, interfaces, endpoints,
           pending, releases, emitted, cancels, nativeLog, calls, reads, codec, bos, hotplug,
           last >>

\* the state of the descriptor getters and of the control transfer codec
auxVars == << reads, codec, bos, hotplug >>

devVars == << activeConfig, configDescriptor, opened, interfaces >>

(***************************************************************************)
(* Endpoint objects.  pollTransfers is the length of the pollTransfers     *)
(* array, 0 when the field is undefined (deleted).  xfer are the Transfer  *)
(* objects made by the last startPollInternal, with their native state:    *)
(* "idle", "flight" (accepted by submit, not completed) or "cancelling"    *)
(* (in flight with a cancel request); len is the submitted buffer's        *)
(* length.  Two fields only observe: ends counts the 'end' events since    *)
(* the last startPoll, and userStop is the number of transfers that were   *)
(* in flight when the user's stopPoll() found the pool Active (0: none).   *)
(* endOnce holds the release() calls, by Interface position, that wait     *)
(* with ep.once('end', ...).                                               *)
(***************************************************************************)
IdleXfer == [st |-> "idle", len |-> 0]

FreeEp ==
    [alive |-> FALSE, address |-> 0, wMaxPacketSize |-> 0, pollTransfers |-> 0,
     xfer |-> << >>, pollTransferSize |-> 0, pollActive |-> FALSE,
     pollPending |-> 0, ends |-> 0, userStop |-> 0, endOnce |-> {}]

\* Endpoint constructor
NewEndpoint(desc) ==
    [FreeEp EXCEPT !.alive = TRUE, !.address = desc.bEndpointAddress,
                   !.wMaxPacketSize = desc.wMaxPacketSize]

\* desc.bEndpointAddress & usb.LIBUSB_ENDPOINT_IN, for 8-bit addresses
IsIn(address) == (address \div LIBUSB_ENDPOINT_IN) % 2 = 1

InFlight(x) == x.st # "idle"

NumInFlight(ep) == Cardinality({i \in 1..Len(ep.xfer) : InFlight(ep.xfer[i])})

Min(a, b) == IF a < b THEN a ELSE b

Ev(t, s, l) == [type |-> t, src |-> s, len |-> l]

(***************************************************************************)
(* The streaming pool.  A context c = [ep, ev, cx] is the Endpoint object, *)
(* the events emitted so far by the running handler and the number of      *)
(* cancel() calls it made.                                                 *)
(***************************************************************************)

\* Faulty variant of stopPollBody, against which C3 is validated: the
\* transfers are cancelled but pollActive is left as it was
stopPollBodyKeepsActive(c, cthrow) ==
    LET n == Len(c.ep.xfer)
        failed == Cardinality({i \in cthrow \cap (1..n) : InFlight(c.ep.xfer[i])})
    IN  [ep |-> [c.ep EXCEPT
                    !.xfer = [i \in 1..n |->
                                IF i \notin cthrow /\ c.ep.xfer[i].st = "flight"
                                THEN [c.ep.xfer[i] EXCEPT !.st = "cancelling"]
                                ELSE c.ep.xfer[i]]],
         ev |-> c.ev \o [k \in 1..failed |-> Ev("error", "cancel", 0)],
         cx |-> c.cx + n]

\* Faulty variant of stopPollBody, against which C27 is validated: the loop
\* ends at the first cancel() that throws
stopPollBodyAborts(c, cthrow) ==
    LET n == Len(c.ep.xfer)
        thrown == {i \in cthrow \cap (1..n) : InFlight(c.ep.xfer[i])}
        stop == IF thrown = {} THEN n
                ELSE CHOOSE i \in thrown : \A j \in thrown : i <= j
    IN  [ep |-> [c.ep EXCEPT
                    !.xfer = [i \in 1..n |->
                                IF i < stop /\ c.ep.xfer[i].st = "flight"
                                THEN [c.ep.xfer[i] EXCEPT !.st = "cancelling"]
                                ELSE c.ep.xfer[i]],
                    !.pollActive = FALSE],
         ev |-> c.ev \o [k \in 1..Min(1, Cardinality(thrown)) |-> Ev("error", "cancel", 0)],
         cx |-> c.cx + stop]

\* Endpoint.stopPoll after its guard: cancel() on every transfer of the pool,
\* then pollActive = false.  cthrow: the transfers whose cancel throws when they
\* are in flight; cancel() on a transfer that is not in flight changes nothing.
stopPollBody(c, cthrow) ==
    LET n == Len(c.ep.xfer)
        failed == Cardinality({i \in cthrow \cap (1..n) : InFlight(c.ep.xfer[i])})
    IN  [ep |-> [c.ep EXCEPT
                    !.xfer = [i \in 1..n |->
                                IF i \notin cthrow /\ c.ep.xfer[i].st = "flight"
                                THEN [c.ep.xfer[i] EXCEPT !.st = "cancelling"]
                                ELSE c.ep.xfer[i]],
                    !.pollActive = FALSE],
         ev |-> c.ev \o [k \in 1..failed |-> Ev("error", "cancel", 0)],
         cx |-> c.cx + n]

\* Faulty variant of PollingAlreadyActive, against which C6 is validated: the
\* guard tests pollActive
PollingAlreadyActiveFlag(ep) == ep.pollActive

\* if (this.pollTransfers) throw new Error("Polling already active")
PollingAlreadyActive(ep) == ep.pollTransfers # 0

\* Faulty variant of PollingNotActive, against which C7 is validated: the guard
\* tests pollActive
PollingNotActiveFlag(ep) == ~ep.pollActive

\* if (!this.pollTransfers) throw new Error('Polling is not active.')
PollingNotActive(ep) == ep.pollTransfers = 0

\* self.stopPoll() called from transferDone / startTransfer: the promise it
\* returns is dropped, so a rejection (no pool) changes nothing.
stopPoll(c, cthrow) ==
    IF PollingNotActive(c.ep) THEN c ELSE stopPollBody(c, cthrow)

\* Faulty variant of startTransfer, against which C2 is validated: the buffer
\* has wMaxPacketSize bytes whatever pollTransferSize is
startTransferMaxPacket(c, i, throws, cthrow) ==
    IF throws
    THEN stopPoll([c EXCEPT !.ev = Append(@, Ev("error", "submit", 0))], cthrow)
    ELSE [c EXCEPT !.ep.xfer[i] = [st |-> "flight", len |-> c.ep.wMaxPacketSize]]

\* InEndpoint.startPoll / startTransfer(t): throws = the native submit throws
startTransfer(c, i, throws, cthrow) ==
    IF throws
    THEN stopPoll([c EXCEPT !.ev = Append(@, Ev("error", "submit", 0))], cthrow)
    ELSE [c EXCEPT !.ep.xfer[i] = [st |-> "flight", len |-> c.ep.pollTransferSize]]

\* this.pollTransfers.forEach(startTransfer), from transfer i on
RECURSIVE forEachStartTransfer(_, _, _, _)
forEachStartTransfer(c, i, sthrow, cthrow) ==
    IF i > Len(c.ep.xfer) THEN c
    ELSE forEachStartTransfer(startTransfer(c, i, i \in sthrow, cthrow),
                              i + 1, sthrow, cthrow)

\* Endpoint.startPollInternal after its guard
startPollInternal(ep, nTransfers, transferSize) ==
    LET n == IF nTransfers = 0 THEN DefaultNTransfers ELSE nTransfers
    IN  [ep EXCEPT
            !.pollTransferSize = IF transferSize = 0 THEN ep.wMaxPacketSize
                                 ELSE transferSize,
            !.pollActive = TRUE,
            !.pollPending = 0,
            !.xfer = [i \in 1..n |-> IdleXfer],
            !.pollTransfers = n,
            !.ends = 0,
            !.userStop = 0]

\* InEndpoint.startPoll after the guard of startPollInternal
startPoll(ep, nTransfers, transferSize, sthrow, cthrow) ==
    LET c == forEachStartTransfer(
                [ep |-> startPollInternal(ep, nTransfers, transferSize), ev |-> << >>,
                 cx |-> 0],
                1, sthrow, cthrow)
    IN  [c EXCEPT !.ep.pollPending = c.ep.pollTransfers]

\* Faulty variant of settle, against which C1 is validated: pollPending is
\* tested before it is decremented, so the last completion does not end the
\* session
settleLate(c) ==
    IF c.ep.pollPending = 0
    THEN [ep |-> [c.ep EXCEPT !.pollPending = 0, !.pollTransfers = 0, !.ends = @ + 1],
          ev |-> Append(c.ev, Ev("end", "pool", 0)),
          cx |-> c.cx]
    ELSE [c EXCEPT !.ep.pollPending = @ - 1]

\* Faulty variant of settle, against which C4 is validated: the session ends
\* when one transfer is still pending
settleEarly(c) ==
    IF c.ep.pollPending - 1 <= 1
    THEN [ep |-> [c.ep EXCEPT !.pollPending = 0, !.pollTransfers = 0, !.ends = @ + 1],
          ev |-> Append(c.ev, Ev("end", "pool", 0)),
          cx |-> c.cx]
    ELSE [c EXCEPT !.ep.pollPending = @ - 1]

\* the else branch of transferDone: pollPending--, and the end of the session
settle(c) ==
    IF c.ep.pollPending - 1 = 0
    THEN [ep |-> [c.ep EXCEPT !.pollPending = 0, !.pollTransfers = 0, !.ends = @ + 1],
          ev |-> Append(c.ev, Ev("end", "pool", 0)),
          cx |-> c.cx]
    ELSE [c EXCEPT !.ep.pollPending = @ - 1]

\* InEndpoint.startPoll / transferDone(error, buf, actual) for transfer i:
\* outcome is "ok", "error" (any errno but cancelled) or "cancelled"
transferDone(ep, i, outcome, actual, rethrow, cthrow) ==
    LET c0 == [ep |-> [ep EXCEPT !.xfer[i] = IdleXfer], ev |-> << >>, cx |-> 0]
        c1 == IF outcome = "ok"
              THEN [c0 EXCEPT !.ev = Append(@, Ev("data", "transfer",
                                                  Min(actual, ep.xfer[i].len)))]
              ELSE IF outcome # "cancelled"
              THEN stopPoll([c0 EXCEPT !.ev = Append(@, Ev("error", "transfer", 0))],
                            cthrow)
              ELSE c0
    IN  IF c1.ep.pollActive
        THEN startTransfer(c1, i, rethrow, cthrow)
        ELSE settle(c1)

(***************************************************************************)
(* The descriptor object model.                                            *)
(***************************************************************************)

\* the configDescriptor getter: the cached value, else the native descriptor
\* of the active configuration, which it caches
GetConfigDescriptor(cache, active) == IF cache # 0 THEN cache ELSE active

\* the ids of the k free objects of the heap with the smallest ids
RECURSIVE FreeIds(_, _, _)
FreeIds(heap, k, from) ==
    IF k = 0 \/ from > MaxObj THEN << >>
    ELSE IF heap[from].alive THEN FreeIds(heap, k, from + 1)
    ELSE << from >> \o FreeIds(heap, k - 1, from + 1)

\* Interface.__refresh: descriptor, interfaceNumber and a new Endpoint object
\* per endpoint descriptor.  Returns the Interface and the heap.
Refresh(ifc, heap, cfg) ==
    LET desc == ConfigDescriptors[cfg].interfaces[ifc.id + 1][ifc.altSetting + 1]
        ids == FreeIds(heap, Len(desc.endpoints), 1)
    IN  [ifc |-> [ifc EXCEPT !.interfaceNumber = desc.bInterfaceNumber,
                             !.endpoints = ids],
         heap |-> [o \in ObjIds |->
                    IF \E k \in 1..Len(ids) : ids[k] = o
                    THEN NewEndpoint(desc.endpoints[CHOOSE k \in 1..Len(ids) : ids[k] = o])
                    ELSE heap[o]],
         ok |-> Len(ids) = Len(desc.endpoints)]

\* new Interface(device, id)
NewInterface(id, heap, cfg) ==
    Refresh([id |-> id, altSetting |-> 0, interfaceNumber |-> 0, endpoints |-> << >>],
            heap, cfg)

\* this.configDescriptor ? this.configDescriptor.interfaces.length : 0, where
\* 0 stands for the null that the getter returns for LIBUSB_ERROR_NOT_FOUND
NumInterfaces(cfg) == IF cfg = 0 THEN 0 ELSE Len(ConfigDescriptors[cfg].interfaces)

\* the loop of open / setConfiguration: interfaces[i] = new Interface(this, i)
RECURSIVE BuildInterfaces(_, _, _)
BuildInterfaces(acc, i, cfg) ==
    IF i >= NumInterfaces(cfg) THEN acc
    ELSE LET r == NewInterface(i, acc.heap, cfg)
         IN  BuildInterfaces([list |-> Append(acc.list, r.ifc), heap |-> r.heap,
                              ok |-> acc.ok /\ r.ok], i + 1, cfg)

\* the Endpoint objects the Interface objects list
Listed(ifcs) ==
    UNION {{ifcs[k].endpoints[j] : j \in 1..Len(ifcs[k].endpoints)} : k \in 1..Len(ifcs)}

\* Garbage collection: an Endpoint object that no Interface lists and that has
\* no pool and no transfer in flight can no longer act.
Collect(heap, ifcs) ==
    [o \in ObjIds |->
        IF heap[o].alive /\ o \notin Listed(ifcs) /\ heap[o].pollTransfers = 0
           /\ NumInFlight(heap[o]) = 0
        THEN FreeEp ELSE heap[o]]

\* Idle (no pool), Active or Draining, from the fields of the Endpoint object
PoolState(ep) ==
    IF ep.pollTransfers = 0 THEN "idle"
    ELSE IF ep.pollActive THEN "active" ELSE "draining"

\* The record of a step: the operation, the Endpoint object e and transfer i it
\* is about, an argument, the state of the pool before it, and its outcome.
Op(op, e, i, arg, pre, res) ==
    [op |-> op, e |-> e, i |-> i, arg |-> arg, pre |-> pre, res |-> res]

\* A release(true) call in progress: n is the closure's counter, owed (which
\* only observes) the Endpoint objects that had a pool when release was called
\* and have not emitted 'end' since.
NoRelease == [on |-> FALSE, n |-> 0, owed |-> {}]

\* a native asynchronous call: its function, the Interface position it came
\* from, and its arguments
NativeCall(fn, k, id, arg) == [fn |-> fn, k |-> k, id |-> id, arg |-> arg]

\* the record of a native interface call: closeEndpoints and owed are those of
\* the release call that issued it
Logged(fn, id, arg, close, owed) ==
    [fn |-> fn, id |-> id, arg |-> arg, close |-> close, owed |-> owed]

\* the elements of a set of numbers, in increasing order
RECURSIVE SetToSeq(_)
SetToSeq(S) ==
    IF S = {} THEN << >>
    ELSE LET m == CHOOSE x \in S : \A y \in S : x <= y
         IN  << m >> \o SetToSeq(S \ {m})

(***************************************************************************)
(* Initial state: a device in configuration 1, not opened.                 *)
(***************************************************************************)
InitDevice ==
    /\ configDescriptor = 0
    /\ opened = FALSE
    /\ interfaces = << >>
    /\ endpoints = [o \in ObjIds |-> FreeEp]
    /\ pending = {}
    /\ releases = [k \in IfcPositions |-> NoRelease]
    /\ emitted = << >>
    /\ cancels = 0
    /\ nativeLog = << >>
    /\ calls = << >>
    /\ last = Op("init", 0, 0, 0, "idle", "ok")

\* The reads of the descriptor getters.  all is _allConfigDescriptors (0: not
\* set, 1: the cached array).  The other fields only observe: cfgRead / allRead
\* say that the getter has been read since the last configuration change,
\* cfgRet / allRet are the object its last read returned ("null", "cached" for
\* the cached object, "fresh" for a new empty array), and for the last read:
\* native is the number of native getter calls it made, again says that it was
\* not the first read, same that it returned the object of the read before.
NoReads ==
    [all |-> 0, cfgRead |-> FALSE, allRead |-> FALSE, cfgRet |-> "none",
     allRet |-> "none", native |-> 0, again |-> FALSE, same |-> TRUE]

\* no controlTransfer made, no getBosDescriptor made
NoCodec == [pc |-> "none"]

NoBos == [cache |-> << >>, bcd |-> 0, first |-> 0, call |-> << >>]

\* the event names on which listeners are put: the two hotplug events and two
\* others
EventNames == {"attach", "detach", "error", "exit"}

\* The module as loaded: var hotplugListeners = 0 and no listener on usb.  on
\* is the number of listeners per event name, enabled says that the native
\* notifications are on, called is the native call that the last step made
\* ("none", "enable", "disable") and lastCall the most recent native call.
NoHotplug ==
    [count |-> 0, on |-> [n \in EventNames |-> 0], enabled |-> FALSE,
     called |-> "none", lastCall |-> "none"]

InitAux == reads = NoReads /\ codec = NoCodec /\ bos = NoBos /\ hotplug = NoHotplug

Init == activeConfig = 1 /\ InitDevice /\ InitAux

(***************************************************************************)
(* Actions.                                                                *)
(***************************************************************************)

\* DeviceExtensions.open, on a device that is not open; fails = __open throws
Open(fails) ==
    /\ ~opened
    /\ IF fails
       THEN /\ UNCHANGED << configDescriptor, opened, interfaces, endpoints >>
            /\ last' = Op("open", 0, 0, 0, "idle", "throw")
       ELSE LET cfg == GetConfigDescriptor(configDescriptor, activeConfig)
                b == BuildInterfaces([list |-> << >>, heap |-> endpoints, ok |-> TRUE],
                                     0, cfg)
            IN  /\ b.ok
                /\ configDescriptor' = cfg
                /\ opened' = TRUE
                /\ interfaces' = b.list
                /\ endpoints' = b.heap
                /\ last' = Op("open", 0, 0, 0, "idle", "ok")
    /\ emitted' = << >>
    /\ cancels' = 0
    /\ nativeLog' = << >>
    /\ UNCHANGED << activeConfig, pending, releases, calls, auxVars >>

\* the number of transfers startPoll(nTransfers) makes
PoolSize(nTransfers) == IF nTransfers = 0 THEN DefaultNTransfers ELSE nTransfers

\* InEndpoint.startPoll(nTransfers, transferSize) on Endpoint object e; 0 stands
\* for an absent argument.  sthrow: the transfers whose first submit throws.
StartPoll(e, nTransfers, transferSize, sthrow, cthrow) ==
    /\ endpoints[e].alive /\ IsIn(endpoints[e].address)
    /\ cthrow \subseteq 1..PoolSize(nTransfers)
    /\ sthrow = {} => cthrow = {}
    /\ IF PollingAlreadyActive(endpoints[e])
       THEN /\ sthrow = {} /\ transferSize = 0
            /\ UNCHANGED endpoints
            /\ emitted' = << >>
            /\ cancels' = 0
            /\ last' = Op("startPoll", e, 0, nTransfers, PoolState(endpoints[e]), "throw")
       ELSE LET c == startPoll(endpoints[e], nTransfers, transferSize, sthrow, cthrow)
            IN  /\ endpoints' = [endpoints EXCEPT ![e] = c.ep]
                /\ emitted' = c.ev
                /\ cancels' = c.cx
                /\ last' = Op("startPoll", e, 0, nTransfers, PoolState(endpoints[e]), "ok")
    /\ nativeLog' = << >>
    /\ UNCHANGED << devVars, calls, auxVars, pending, releases >>

\* Endpoint.stopPoll() called by the user on Endpoint object e.  The function is
\* async: its usage error is a rejected promise.
StopPoll(e, cthrow) ==
    /\ endpoints[e].alive
    /\ \A i \in cthrow : i <= endpoints[e].pollTransfers /\ InFlight(endpoints[e].xfer[i])
    /\ IF PollingNotActive(endpoints[e])
       THEN /\ UNCHANGED endpoints
            /\ emitted' = << >>
            /\ cancels' = 0
            /\ last' = Op("stopPoll", e, 0, 0, PoolState(endpoints[e]), "reject")
       ELSE LET c == stopPollBody([ep |-> endpoints[e], ev |-> << >>, cx |-> 0], cthrow)
            IN  /\ endpoints' = [endpoints EXCEPT ![e] =
                        IF endpoints[e].pollActive
                        THEN [c.ep EXCEPT !.userStop = NumInFlight(endpoints[e])]
                        ELSE c.ep]
                /\ emitted' = c.ev
                /\ cancels' = c.cx
                /\ last' = Op("stopPoll", e, 0, 0, PoolState(endpoints[e]), "ok")
    /\ nativeLog' = << >>
    /\ UNCHANGED << devVars, calls, auxVars, pending, releases >>

\* The native engine completes transfer i of the pool of Endpoint object e and
\* calls transferDone.  A transfer completes as cancelled only after a cancel
\* request; rethrow = the submit of the resubmission throws.
TransferDone(e, i, outcome, actual, rethrow, cthrow) ==
    /\ endpoints[e].alive
    /\ i \in 1..Len(endpoints[e].xfer)
    /\ InFlight(endpoints[e].xfer[i])
    /\ outcome = "cancelled" => endpoints[e].xfer[i].st = "cancelling"
    /\ actual \in 0..endpoints[e].xfer[i].len
    /\ outcome # "ok" => actual = 0
    /\ \A j \in cthrow :
         j <= endpoints[e].pollTransfers /\ j # i /\ InFlight(endpoints[e].xfer[j])
    \* the inputs that the handler does not read are fixed
    /\ rethrow => endpoints[e].pollActive /\ outcome # "error"
    /\ cthrow # {} => outcome = "error" \/ rethrow
    /\ last' = Op("transferDone", e, i, actual, PoolState(endpoints[e]), outcome)
    /\ LET c == transferDone(endpoints[e], i, outcome, actual, rethrow, cthrow)
           ended == c.ep.ends # endpoints[e].ends
           \* the once('end') listeners of release: if (--n == 0) next()
           heard == IF ended THEN endpoints[e].endOnce ELSE {}
           fired == {k \in heard : releases[k].n - 1 = 0}
       IN  /\ emitted' = c.ev
           /\ cancels' = c.cx
           /\ endpoints' = Collect([endpoints EXCEPT ![e] =
                                [c.ep EXCEPT !.endOnce = IF ended THEN {} ELSE @]],
                                interfaces)
           /\ releases' = [k \in IfcPositions |->
                            IF k \in fired THEN NoRelease
                            ELSE [releases[k] EXCEPT
                                    !.n = IF k \in heard THEN @ - 1 ELSE @,
                                    !.owed = IF ended THEN @ \ {e} ELSE @]]
           /\ pending' = pending \cup
                    {NativeCall("releaseInterface", k, interfaces[k].id, 0) : k \in fired}
           /\ nativeLog' = [j \in 1..Cardinality(fired) |->
                            LET k == SetToSeq(fired)[j]
                            IN  Logged("releaseInterface", interfaces[k].id, 0, TRUE,
                                       releases[k].owed \ {e})]
    /\ UNCHANGED << devVars, calls, auxVars >>

\* The user cancels transfer i of the pool through its handle,
\* ep.pollTransfers[i].cancel()
CancelTransfer(e, i) ==
    /\ endpoints[e].alive
    /\ i \in 1..endpoints[e].pollTransfers
    /\ endpoints[e].xfer[i].st = "flight"
    /\ endpoints' = [endpoints EXCEPT ![e].xfer[i].st = "cancelling"]
    /\ emitted' = << >>
    /\ cancels' = 1
    /\ last' = Op("cancel", e, i, 0, PoolState(endpoints[e]), "ok")
    /\ nativeLog' = << >>
    /\ UNCHANGED << devVars, calls, auxVars, pending, releases >>

(***************************************************************************)
(* Interface operations.  The native calls are asynchronous: the call is   *)
(* issued by one step and its callback runs in a later one.                *)
(***************************************************************************)

\* an interface operation is in progress: a native call whose callback has not
\* run, or a release waiting for the 'end' of its endpoints.  The operations
\* are started one at a time.
Busy == pending # {} \/ \E k \in IfcPositions : releases[k].on

\* The callback of __releaseInterface / __setInterface on success, for the
\* Interface at position k: self.altSetting = alt; self.__refresh().  __refresh
\* reads device.configDescriptor; when it holds no such alternate setting the
\* read of descriptor.bInterfaceNumber throws after altSetting was assigned.
\* The Endpoint objects the Interface listed before are garbage once they have
\* no pool.
RefreshAt(k, alt, cfg) ==
    LET ifc0 == [interfaces[k] EXCEPT !.altSetting = alt]
    IN  IF ~HasDescriptor(cfg, ifc0.id, alt)
        THEN [ifcs |-> [interfaces EXCEPT ![k] = ifc0], heap |-> endpoints,
              ok |-> TRUE, res |-> "TypeError"]
        ELSE LET old == {interfaces[k].endpoints[j] :
                            j \in 1..Len(interfaces[k].endpoints)}
                 heap0 == [o \in ObjIds |->
                            IF o \in old /\ endpoints[o].pollTransfers = 0
                               /\ NumInFlight(endpoints[o]) = 0
                            THEN FreeEp ELSE endpoints[o]]
                 r == Refresh(ifc0, heap0, cfg)
                 ifcs == [interfaces EXCEPT ![k] = r.ifc]
             IN  [ifcs |-> ifcs, heap |-> Collect(r.heap, ifcs), ok |-> r.ok,
                  res |-> "ok"]

\* the synchronous native calls of an Interface: claim, isKernelDriverActive,
\* detachKernelDriver, attachKernelDriver
SyncInterfaceCalls ==
    {"claimInterface", "isKernelDriverActive", "detachKernelDriver", "attachKernelDriver"}

\* Interface.claim() and the kernel driver calls on the Interface at position
\* k: this.device.__fn(this.id); the native call may throw
InterfaceCall(k, fn, fails) ==
    /\ opened /\ k \in 1..Len(interfaces)
    /\ ~Busy
    /\ nativeLog' = << Logged(fn, interfaces[k].id, 0, FALSE, {}) >>
    /\ emitted' = << >>
    /\ cancels' = 0
    /\ last' = Op(fn, 0, k, 0, "idle", IF fails THEN "throw" ELSE "ok")
    /\ UNCHANGED << devVars, calls, auxVars, endpoints, pending, releases >>

\* Interface.setAltSetting(altSetting) on the Interface at position k: the call
\* of __setInterface(this.id, altSetting, callback)
SetAltSetting(k, altSetting) ==
    /\ opened /\ k \in 1..Len(interfaces)
    /\ ~Busy
    /\ pending' = pending \cup
            {NativeCall("setInterfaceAltSetting", k, interfaces[k].id, altSetting)}
    /\ nativeLog' = << Logged("setInterfaceAltSetting", interfaces[k].id, altSetting,
                              FALSE, {}) >>
    /\ emitted' = << >>
    /\ cancels' = 0
    /\ last' = Op("setAltSetting", 0, k, altSetting, "idle", "ok")
    /\ UNCHANGED << devVars, calls, auxVars, endpoints, releases >>

\* The callback of __setInterface.  The native call can succeed only for an
\* alternate setting the active configuration has for that interface number.
SetAltSettingDone(op, err) ==
    /\ op \in pending /\ op.fn = "setInterfaceAltSetting"
    /\ ~err => NativeHasAltSetting(activeConfig, op.id, op.arg)
    /\ pending' = pending \ {op}
    /\ IF err
       THEN /\ UNCHANGED << configDescriptor, interfaces, endpoints >>
            /\ last' = Op("setAltSettingDone", 0, op.k, op.arg, "idle", "reject")
       ELSE LET cfg == GetConfigDescriptor(configDescriptor, activeConfig)
                r == RefreshAt(op.k, op.arg, cfg)
            IN  /\ r.ok
                /\ configDescriptor' = cfg
                /\ interfaces' = r.ifcs
                /\ endpoints' = r.heap
                /\ last' = Op("setAltSettingDone", 0, op.k, op.arg, "idle", r.res)
    /\ emitted' = << >>
    /\ cancels' = 0
    /\ nativeLog' = << >>
    /\ UNCHANGED << activeConfig, opened, releases, calls, auxVars >>

RECURSIVE SumTransfers(_, _)
SumTransfers(heap, S) ==
    IF S = {} THEN 0
    ELSE LET o == CHOOSE x \in S : TRUE
         IN  heap[o].pollTransfers + SumTransfers(heap, S \ {o})

\* Interface.release(closeEndpoints) on the Interface at position k, up to the
\* return of the promise: either next() issues __releaseInterface(self.id, ..)
\* at once, or every endpoint with pollActive gets a once('end') listener and
\* stopPoll(), and the others count down n.  The cancel() calls of these
\* stopPoll() do not throw here.
Release(k, closeEndpoints) ==
    /\ opened /\ k \in 1..Len(interfaces)
    /\ ~Busy
    /\ LET ifc == interfaces[k]
           eps == {ifc.endpoints[j] : j \in 1..Len(ifc.endpoints)}
           owed == {e \in eps : endpoints[e].pollTransfers # 0}
           active == {e \in eps : endpoints[e].pollActive}
           call == NativeCall("releaseInterface", k, ifc.id, 0)
           log == Logged("releaseInterface", ifc.id, 0, closeEndpoints, owed)
       IN  IF ~closeEndpoints \/ Len(ifc.endpoints) = 0
           THEN /\ pending' = pending \cup {call}
                /\ nativeLog' = << log >>
                /\ cancels' = 0
                /\ UNCHANGED << endpoints, releases >>
           ELSE /\ endpoints' = [o \in ObjIds |->
                        IF o \in active
                        THEN [stopPoll([ep |-> endpoints[o], ev |-> << >>, cx |-> 0],
                                       {}).ep
                                EXCEPT !.endOnce = @ \cup {k}]
                        ELSE endpoints[o]]
                /\ cancels' = SumTransfers(endpoints, active)
                /\ IF active = {}
                   THEN /\ pending' = pending \cup {call}
                        /\ nativeLog' = << log >>
                        /\ UNCHANGED releases
                   ELSE /\ releases' = [releases EXCEPT ![k] =
                                [on |-> TRUE, n |-> Cardinality(active), owed |-> owed]]
                        /\ nativeLog' = << >>
                        /\ UNCHANGED pending
    /\ emitted' = << >>
    /\ last' = Op("release", 0, k, IF closeEndpoints THEN 1 ELSE 0, "idle", "ok")
    /\ UNCHANGED << devVars, calls, auxVars >>

\* The callback of __releaseInterface: on success self.altSetting = 0 and
\* self.__refresh()
ReleaseDone(op, err) ==
    /\ op \in pending /\ op.fn = "releaseInterface"
    /\ pending' = pending \ {op}
    /\ IF err
       THEN /\ UNCHANGED << configDescriptor, interfaces, endpoints >>
            /\ last' = Op("releaseDone", 0, op.k, 0, "idle", "reject")
       ELSE LET cfg == GetConfigDescriptor(configDescriptor, activeConfig)
                r == RefreshAt(op.k, 0, cfg)
            IN  /\ r.ok
                /\ configDescriptor' = cfg
                /\ interfaces' = r.ifcs
                /\ endpoints' = r.heap
                /\ last' = Op("releaseDone", 0, op.k, 0, "idle", r.res)
    /\ emitted' = << >>
    /\ cancels' = 0
    /\ nativeLog' = << >>
    /\ UNCHANGED << activeConfig, opened, releases, calls, auxVars >>

\* DeviceExtensions.setConfiguration(desired): the call of
\* __setConfiguration(desired, callback)
SetConfiguration(desired) ==
    /\ opened
    /\ ~Busy
    /\ pending' = {NativeCall("setConfiguration", 0, 0, desired)}
    /\ nativeLog' = << Logged("setConfiguration", 0, desired, FALSE, {}) >>
    /\ emitted' = << >>
    /\ cancels' = 0
    /\ last' = Op("setConfiguration", 0, 0, desired, "idle", "ok")
    /\ UNCHANGED << devVars, calls, auxVars, endpoints, releases >>

\* the callback without "if (err) return reject(err)": it rebuilds the list on
\* an error as well
setConfigurationCallbackRebuilds(err, ifcs, heap, cache, desired) ==
    LET cfg == GetConfigDescriptor(cache, IF err THEN cache ELSE desired)
        b == BuildInterfaces([list |-> << >>, heap |-> Collect(heap, << >>),
                              ok |-> TRUE], 0, cfg)
    IN  [list |-> b.list, heap |-> b.heap, ok |-> b.ok, cache |-> cfg, rejected |-> err]

\* The body of the callback of __setConfiguration: on an error it rejects and
\* does nothing else; otherwise the Interface list is rebuilt from
\* this.configDescriptor, which is read through the caching getter.
setConfigurationCallback(err, ifcs, heap, cache, desired) ==
    IF err
    THEN [list |-> ifcs, heap |-> heap, ok |-> TRUE, cache |-> cache, rejected |-> TRUE]
    ELSE LET cfg == GetConfigDescriptor(cache, desired)
             b == BuildInterfaces([list |-> << >>, heap |-> Collect(heap, << >>),
                                   ok |-> TRUE], 0, cfg)
         IN  [list |-> b.list, heap |-> b.heap, ok |-> b.ok, cache |-> cfg,
              rejected |-> FALSE]

\* The callback of __setConfiguration.  On success the device is in the desired
\* configuration, and the Interface list is rebuilt from this.configDescriptor.
SetConfigurationDone(op, err) ==
    /\ op \in pending /\ op.fn = "setConfiguration"
    /\ pending' = pending \ {op}
    /\ LET r == setConfigurationCallback(err, interfaces, endpoints, configDescriptor,
                                         op.arg)
       IN  /\ r.ok
           /\ activeConfig' = IF err THEN activeConfig ELSE op.arg
           /\ configDescriptor' = r.cache
           /\ interfaces' = r.list
           /\ endpoints' = r.heap
           /\ last' = Op("setConfigurationDone", 0, 0, op.arg, "idle",
                         IF r.rejected THEN "reject" ELSE "ok")
    /\ reads' = IF err THEN reads
                ELSE [reads EXCEPT !.cfgRead = FALSE, !.allRead = FALSE, !.again = FALSE]
    /\ emitted' = << >>
    /\ cancels' = 0
    /\ nativeLog' = << >>
    /\ UNCHANGED << opened, releases, calls, codec, bos, hotplug >>

(***************************************************************************)
(* The descriptor getters, close and the lookup of an Interface.           *)
(***************************************************************************)

\* two reads returned the same object: a new array is no object returned before
SameObject(prev, now) == prev = now /\ now # "fresh"

\* A read of Device.configDescriptor.  outcome is that of the native
\* __getConfigDescriptor when the getter calls it: "ok", "notFound" (the device
\* is not configured, LIBUSB_ERROR_NOT_FOUND) or "error" (any other exception,
\* which the getter rethrows).
ReadConfigDescriptor(outcome) ==
    /\ IF configDescriptor # 0 THEN outcome = "ok"
       ELSE IF activeConfig = 0 THEN outcome \in {"notFound", "error"}
       ELSE outcome \in {"ok", "error"}
    /\ configDescriptor' = IF configDescriptor = 0 /\ outcome = "ok" THEN activeConfig
                           ELSE configDescriptor
    /\ LET ret == IF outcome = "ok" THEN "cached" ELSE "null"
       IN  /\ reads' = [reads EXCEPT
                            !.cfgRead = TRUE,
                            !.native = IF configDescriptor = 0 THEN 1 ELSE 0,
                            !.again = reads.cfgRead,
                            !.cfgRet = IF outcome = "error" THEN @ ELSE ret,
                            !.same = outcome = "error" \/ SameObject(reads.cfgRet, ret)]
           /\ last' = Op("configDescriptor", 0, 0, configDescriptor', "idle",
                         IF outcome = "error" THEN "throw" ELSE "ok")
    /\ emitted' = << >>
    /\ cancels' = 0
    /\ nativeLog' = << >>
    /\ UNCHANGED << activeConfig, opened, interfaces, endpoints, pending, releases,
                    calls, codec, bos, hotplug >>

\* A read of Device.allConfigDescriptors; outcome is that of the native
\* __getAllConfigDescriptors when the getter calls it.  On "notFound" the getter
\* returns a new empty array and caches nothing.
ReadAllConfigDescriptors(outcome) ==
    /\ reads.all # 0 => outcome = "ok"
    /\ LET ret == IF outcome = "ok" THEN "cached" ELSE "fresh"
       IN  /\ reads' = [reads EXCEPT
                            !.all = IF outcome = "ok" THEN 1 ELSE @,
                            !.allRead = TRUE,
                            !.native = IF reads.all = 0 THEN 1 ELSE 0,
                            !.again = reads.allRead,
                            !.allRet = IF outcome = "error" THEN @ ELSE ret,
                            !.same = outcome = "error" \/ SameObject(reads.allRet, ret)]
           /\ last' = Op("allConfigDescriptors", 0, 0, 0, "idle",
                         IF outcome = "error" THEN "throw" ELSE "ok")
    /\ emitted' = << >>
    /\ cancels' = 0
    /\ nativeLog' = << >>
    /\ UNCHANGED << devVars, endpoints, pending, releases, calls, codec, bos, hotplug >>

\* DeviceExtensions.close(): self.__close(), which may throw, then
\* self.interfaces = null
Close(fails) ==
    /\ opened
    /\ IF fails
       THEN /\ UNCHANGED << opened, interfaces, endpoints >>
            /\ last' = Op("close", 0, 0, 0, "idle", "throw")
       ELSE /\ opened' = FALSE
            /\ interfaces' = << >>
            /\ endpoints' = Collect(endpoints, << >>)
            /\ last' = Op("close", 0, 0, 0, "idle", "ok")
    /\ emitted' = << >>
    /\ cancels' = 0
    /\ nativeLog' = << >>
    /\ UNCHANGED << activeConfig, configDescriptor, pending, releases, calls, auxVars >>

\* the position of the first Interface of the list whose interfaceNumber is
\* addr, 0 when there is none (the loop falls through and returns undefined)
FirstInterface(ifcs, addr) ==
    IF \E k \in 1..Len(ifcs) : ifcs[k].interfaceNumber = addr
    THEN CHOOSE k \in 1..Len(ifcs) :
            /\ ifcs[k].interfaceNumber = addr
            /\ \A j \in 1..(k - 1) : ifcs[j].interfaceNumber # addr
    ELSE 0

\* !this.interfaces: the field is undefined before the first open, open()
\* assigns an array after __open() succeeded and close() assigns null after
\* __close() succeeded, so that it is unset exactly when the device is not open
InterfacesUnset == ~opened

\* DeviceExtensions.interface(addr); addr = -1 stands for an absent argument
\* (addr = addr || 0).  The step records the position found and the outcome.
LookupInterface(addr) ==
    /\ last' = IF InterfacesUnset
               THEN Op("interface", 0, 0, addr, "idle", "throw")
               ELSE Op("interface", 0,
                       FirstInterface(interfaces, IF addr = -1 THEN 0 ELSE addr),
                       addr, "idle", "ok")
    /\ emitted' = << >>
    /\ cancels' = 0
    /\ nativeLog' = << >>
    /\ UNCHANGED << devVars, endpoints, pending, releases, calls, auxVars >>

(***************************************************************************)
(* Single transfers: controlTransfer, InEndpoint.transfer,                 *)
(* OutEndpoint.transfer and transferWithZLP.  A call record is one         *)
(* submission: path is the function that made it, cb says whether that     *)
(* function was given a callback, userCb whether the caller of the API     *)
(* gave one (they differ for the data submission of transferWithZLP), zlp  *)
(* is the part of transferWithZLP it is ("no", "data", "zlp"), st is       *)
(* "flight" (accepted by submit), "tick" (submit threw and the catch       *)
(* scheduled process.nextTick) or "done".  invoked counts the invocations  *)
(* of the user's callback, got is what the last one was given ("ok",       *)
(* "error", or "submit" for the exception of submit), fault is set when    *)
(* callback.call is made on an undefined callback.                         *)
(***************************************************************************)
Call(path, userCb, cb, zlp, st, threw) ==
    [path |-> path, userCb |-> userCb, cb |-> cb, zlp |-> zlp, st |-> st,
     threw |-> threw, invoked |-> 0, got |-> "none", fault |-> FALSE]

\* Faulty variant of trySubmit, against which C9 is validated: the catch
\* schedules nothing
trySubmitSilent(path, cb, throws) ==
    IF ~throws THEN "flight" ELSE "done"

\* try { transfer.submit(buf) } catch (e) { ... process.nextTick(...) }:
\* controlTransfer schedules the tick only if it has a callback, the endpoint
\* transfers always do
trySubmit(path, cb, throws) ==
    IF ~throws THEN "flight"
    ELSE IF path = "control" /\ ~cb THEN "done"
    ELSE "tick"

\* The function that the completion, or the tick, runs for call record c with
\* outcome got: controlTransfer and OutEndpoint.transfer test the callback
\* (if (callback) / if (cb)), InEndpoint.transfer calls callback.call(..)
\* whatever it is.
callback(c, got) ==
    IF c.cb
    THEN [c EXCEPT !.st = "done", !.invoked = @ + 1, !.got = got]
    ELSE [c EXCEPT !.st = "done", !.fault = (c.path = "in")]

\* The kinds of data_or_length: a size (a number >= 0), a byte buffer, and a
\* byte buffer whose string form reads as a number >= 0 (an empty one, or one
\* that holds the text of a number), which the comparison with 0 lets through.
ArgKinds == {"size", "buffer", "numericBuffer"}

\* the argument checks, were the length that a buffer coerces to accepted by
\* Buffer.alloc
ArgumentErrorCoerced(isIn, kind) ==
    IF isIn THEN kind = "buffer" ELSE kind = "size"

\* The argument checks of controlTransfer: the call throws a TypeError
\*   IN:  if !(data_or_length >= 0), and for a buffer that passes this test in
\*        Buffer.alloc(wLength + SETUP_SIZE), whose argument is then a string;
\*   OUT: if !isBuffer(data_or_length).
\* Both throws come before new usb.Transfer.
ArgumentError(isIn, kind) ==
    IF isIn THEN kind \in {"buffer", "numericBuffer"} ELSE kind = "size"

\* Device.controlTransfer(bmRequestType, .., data_or_length, callback): kind is
\* the kind of data_or_length, cb says that a callback is given, throws that
\* transfer.submit throws.
ControlTransfer(isIn, kind, cb, throws) ==
    /\ Len(calls) < MaxCalls
    /\ LET valid == ~ArgumentError(isIn, kind)
       IN  /\ ~valid => ~throws
           /\ calls' = IF valid
                       THEN Append(calls, Call("control", cb, cb, "no",
                                               trySubmit("control", cb, throws), throws))
                       ELSE calls
           /\ last' = Op("controlTransfer", 0, Len(calls'), IF isIn THEN 1 ELSE 0, "idle",
                         IF valid THEN "ok" ELSE "TypeError")
    /\ emitted' = << >>
    /\ cancels' = 0
    /\ nativeLog' = << >>
    /\ UNCHANGED << devVars, endpoints, pending, releases, auxVars >>

\* InEndpoint.transfer(length, callback)
InTransfer(e, cb, throws) ==
    /\ Len(calls) < MaxCalls
    /\ endpoints[e].alive /\ IsIn(endpoints[e].address)
    /\ calls' = Append(calls, Call("in", cb, cb, "no", trySubmit("in", cb, throws), throws))
    /\ last' = Op("transfer", e, Len(calls'), 0, "idle", "ok")
    /\ emitted' = << >>
    /\ cancels' = 0
    /\ nativeLog' = << >>
    /\ UNCHANGED << devVars, endpoints, pending, releases, auxVars >>

\* OutEndpoint.transfer(buffer, cb)
OutTransfer(e, cb, throws) ==
    /\ Len(calls) < MaxCalls
    /\ endpoints[e].alive /\ ~IsIn(endpoints[e].address)
    /\ calls' = Append(calls, Call("out", cb, cb, "no", trySubmit("out", cb, throws), throws))
    /\ last' = Op("transfer", e, Len(calls'), 0, "idle", "ok")
    /\ emitted' = << >>
    /\ cancels' = 0
    /\ nativeLog' = << >>
    /\ UNCHANGED << devVars, endpoints, pending, releases, auxVars >>

\* transferWithZLP without the test of the length: the data buffer alone
zlpSubmissionsDataOnly(len, wMaxPacketSize) == << len >>

\* The lengths of the buffers that transferWithZLP hands to this.transfer, in
\* the order of the calls: buf and then Buffer.alloc(0) when
\* buf.length % wMaxPacketSize == 0, otherwise buf alone.
zlpSubmissions(len, wMaxPacketSize) ==
    IF len % wMaxPacketSize = 0 THEN << len, 0 >> ELSE << len >>

\* OutEndpoint.transferWithZLP(buf, cb) with a buffer of len bytes: when len is
\* a multiple of wMaxPacketSize, this.transfer(buf) without a callback and then
\* this.transfer(Buffer.alloc(0), cb); otherwise this.transfer(buf, cb).  Each
\* this.transfer makes one submit, which nativeLog records with its length.
TransferWithZLP(e, len, cb, throwsData, throwsZlp) ==
    /\ endpoints[e].alive /\ ~IsIn(endpoints[e].address)
    /\ LET subs == zlpSubmissions(len, endpoints[e].wMaxPacketSize)
       IN  /\ IF Len(subs) = 2
              THEN /\ Len(calls) + 2 <= MaxCalls
                   /\ calls' = calls \o
                        << Call("out", cb, FALSE, "data",
                                trySubmit("out", FALSE, throwsData), throwsData),
                           Call("out", cb, cb, "zlp", trySubmit("out", cb, throwsZlp),
                                throwsZlp) >>
              ELSE /\ Len(calls) < MaxCalls
                   /\ ~throwsZlp
                   /\ calls' = Append(calls, Call("out", cb, cb, "no",
                                                  trySubmit("out", cb, throwsData),
                                                  throwsData))
           /\ nativeLog' = [i \in 1..Len(subs) |->
                                Logged("submit", endpoints[e].address, subs[i], FALSE, {})]
    /\ last' = Op("transferWithZLP", e, Len(calls'), len, "idle", "ok")
    /\ emitted' = << >>
    /\ cancels' = 0
    /\ UNCHANGED << devVars, endpoints, pending, releases, auxVars >>

\* The native completion of the accepted single transfer c, with or without an
\* error: the transfer's callback runs
XferDone(c, error) ==
    /\ c \in 1..Len(calls)
    /\ calls[c].st = "flight"
    /\ calls' = [calls EXCEPT ![c] = callback(@, IF error THEN "error" ELSE "ok")]
    /\ last' = Op("xferDone", 0, c, 0, "idle", IF error THEN "error" ELSE "ok")
    /\ emitted' = << >>
    /\ cancels' = 0
    /\ nativeLog' = << >>
    /\ UNCHANGED << devVars, endpoints, pending, releases, auxVars >>

\* The process.nextTick function scheduled by the catch of submission c
Tick(c) ==
    /\ c \in 1..Len(calls)
    /\ calls[c].st = "tick"
    /\ calls' = [calls EXCEPT ![c] = callback(@, "submit")]
    /\ last' = Op("tick", 0, c, 0, "idle", "ok")
    /\ emitted' = << >>
    /\ cancels' = 0
    /\ nativeLog' = << >>
    /\ UNCHANGED << devVars, endpoints, pending, releases, auxVars >>

Outcomes == {"ok", "error", "cancelled"}

Slots == 1..(IF MaxPoll > DefaultNTransfers THEN MaxPoll ELSE DefaultNTransfers)

\* any completion of a transfer of the pool of Endpoint object e
Complete(e) ==
    /\ NumInFlight(endpoints[e]) > 0
    /\ \E i \in 1..Len(endpoints[e].xfer), outcome \in Outcomes :
        \E actual \in 0..endpoints[e].xfer[i].len, rethrow \in BOOLEAN,
           cthrow \in SUBSET (1..endpoints[e].pollTransfers) :
            TransferDone(e, i, outcome, actual, rethrow, cthrow)

(***************************************************************************)
(* Spec: one device, opened once, and the streaming pools of its           *)
(* endpoints.                                                              *)
(***************************************************************************)
Next ==
    \/ \E fails \in BOOLEAN : Open(fails)
    \/ \E e \in ObjIds, nTransfers \in 0..MaxPoll, transferSize \in 0..MaxSize :
         \E sthrow \in SUBSET (1..PoolSize(nTransfers)), cthrow \in SUBSET Slots :
            StartPoll(e, nTransfers, transferSize, sthrow, cthrow)
    \/ \E e \in ObjIds, cthrow \in SUBSET Slots : StopPoll(e, cthrow)
    \/ \E e \in ObjIds : Complete(e)
    \/ \E e \in ObjIds, i \in Slots : CancelTransfer(e, i)

Spec == Init /\ [][Next]_vars

\* the native engine completes every transfer it accepted
Fairness == \A e \in ObjIds : WF_vars(Complete(e))

FairSpec == Spec /\ Fairness

(***************************************************************************)
(* IfaceSpec: a device in any of its configurations, its Interface objects *)
(* with their alternate settings, and the pools of their endpoints, whose  *)
(* submits and cancels do not throw.                                       *)
(***************************************************************************)
IfaceInit == activeConfig \in ConfigValues /\ InitDevice /\ InitAux

IfaceNext ==
    \/ \E fails \in BOOLEAN : Open(fails)
    \/ \E k \in IfcPositions, fn \in SyncInterfaceCalls, fails \in BOOLEAN :
            InterfaceCall(k, fn, fails)
    \/ \E k \in IfcPositions, altSetting \in AltSettings : SetAltSetting(k, altSetting)
    \/ \E op \in pending, err \in BOOLEAN : SetAltSettingDone(op, err)
    \/ \E k \in IfcPositions, closeEndpoints \in BOOLEAN : Release(k, closeEndpoints)
    \/ \E op \in pending, err \in BOOLEAN : ReleaseDone(op, err)
    \/ \E desired \in ConfigValues : SetConfiguration(desired)
    \/ \E op \in pending, err \in BOOLEAN : SetConfigurationDone(op, err)
    \/ \E e \in Listed(interfaces), nTransfers \in 1..MaxPoll :
            StartPoll(e, nTransfers, 0, {}, {})
    \/ \E e \in Listed(interfaces) : StopPoll(e, {})
    \/ \E e \in ObjIds : \E i \in 1..Len(endpoints[e].xfer), outcome \in Outcomes :
            TransferDone(e, i, outcome, 0, FALSE, {})

IfaceSpec == IfaceInit /\ [][IfaceNext]_vars

(***************************************************************************)
(* XferSpec: the single transfers of a device.  XferFairSpec: the event    *)
(* loop does not stop while a completion of an accepted transfer or a      *)
(* scheduled tick is waiting; the submissions of a run being finite, each  *)
(* of them is then served.                                                 *)
(***************************************************************************)
XferNext ==
    \/ \E fails \in BOOLEAN : Open(fails)
    \/ \E isIn, cb, throws \in BOOLEAN, kind \in ArgKinds :
            ControlTransfer(isIn, kind, cb, throws)
    \/ \E e \in ObjIds, cb, throws \in BOOLEAN : InTransfer(e, cb, throws)
    \/ \E e \in ObjIds, cb, throws \in BOOLEAN : OutTransfer(e, cb, throws)
    \/ \E e \in ObjIds, len \in 0..MaxLen, cb, throwsData, throwsZlp \in BOOLEAN :
            TransferWithZLP(e, len, cb, throwsData, throwsZlp)
    \/ \E c \in 1..MaxCalls, error \in BOOLEAN : XferDone(c, error)
    \/ \E c \in 1..MaxCalls : Tick(c)

XferSpec == Init /\ [][XferNext]_vars

XferFairness ==
    WF_vars(\E c \in 1..MaxCalls : (\E error \in BOOLEAN : XferDone(c, error)) \/ Tick(c))

XferFairSpec == XferSpec /\ XferFairness

(***************************************************************************)
(* DescSpec: a device that may be unconfigured (activeConfig = 0), its     *)
(* descriptor getters, open / close, setConfiguration and the lookup of an *)
(* Interface by number.                                                    *)
(***************************************************************************)
DescInit == activeConfig \in {0} \cup ConfigValues /\ InitDevice /\ InitAux

NativeOutcomes == {"ok", "notFound", "error"}

\* the interface numbers looked up: those of the descriptors, one more, and -1
\* for an absent argument
LookupArgs == -1..Len(ConfigDescriptors[1].interfaces)

DescNext ==
    \/ \E fails \in BOOLEAN : Open(fails)
    \/ \E fails \in BOOLEAN : Close(fails)
    \/ \E outcome \in NativeOutcomes : ReadConfigDescriptor(outcome)
    \/ \E outcome \in NativeOutcomes : ReadAllConfigDescriptors(outcome)
    \/ \E addr \in LookupArgs : LookupInterface(addr)
    \/ \E desired \in ConfigValues : SetConfiguration(desired)
    \/ \E op \in pending, err \in BOOLEAN : SetConfigurationDone(op, err)

DescSpec == DescInit /\ [][DescNext]_vars

(***************************************************************************)
(* The buffer of a control transfer, byte by byte.  A buffer is a sequence *)
(* of bytes; offsets are those of the code, counted from 0.                *)
(***************************************************************************)

\* Buffer.alloc(n): n zero bytes
alloc(n) == [i \in 1..n |-> 0]

\* buf.writeUInt8(v, off)
writeUInt8(buf, v, off) == [buf EXCEPT ![off + 1] = v]

\* a 16 bit write with the high byte first
writeUInt16BE(buf, v, off) ==
    [buf EXCEPT ![off + 1] = v \div 256, ![off + 2] = v % 256]

\* buf.writeUInt16LE(v, off): low byte at off, high byte at off + 1
writeUInt16LE(buf, v, off) ==
    [buf EXCEPT ![off + 1] = v % 256, ![off + 2] = v \div 256]

\* buf.set(data, off): the bytes of data copied to off, off + 1, ...
set(buf, data, off) ==
    [i \in 1..Len(buf) |->
        IF i > off /\ i <= off + Len(data) THEN data[i - off] ELSE buf[i]]

\* buf.slice(start, end) for start, end >= 0: both are clamped to the length
slice(buf, start, end) ==
    LET s == Min(start, Len(buf))
        e == Min(end, Len(buf))
    IN  IF e <= s THEN << >> ELSE SubSeq(buf, s + 1, e)

\* !!(bmRequestType & usb.LIBUSB_ENDPOINT_IN): bit 7 of the request type
IsInRequest(bmRequestType) == (bmRequestType \div LIBUSB_ENDPOINT_IN) % 2 = 1

\* the bytes of a data stage of L bytes: a pattern that depends on seed
DataBytes(L, seed) == [i \in 1..L |-> (seed + 3 * i) % 256]

\* writeUInt16LE throws a RangeError for a value above 65535: a wLength that
\* large makes controlTransfer throw before it creates the Transfer
WLengthInRange(wLength) == wLength <= 65535

\* The buffer that controlTransfer builds and submits: the setup packet
\* (bmRequestType, bRequest, wValue, wIndex, wLength) and, for an OUT request,
\* the data after it.
SetupBuffer(bmRequestType, bRequest, wValue, wIndex, wLength, data) ==
    LET b0 == alloc(wLength + SETUP_SIZE)
        b1 == writeUInt8(b0, bmRequestType, 0)
        b2 == writeUInt8(b1, bRequest, 1)
        b3 == writeUInt16LE(b2, wValue, 2)
        b4 == writeUInt16LE(b3, wIndex, 4)
        b5 == writeUInt16LE(b4, wLength, 6)
    IN  IF IsInRequest(bmRequestType) THEN b5 ELSE set(b5, data, SETUP_SIZE)

\* The arguments of a controlTransfer: len is the size asked for by an IN
\* request, the length of the data buffer of an OUT request.
CodecArgs ==
    { [pc |-> "args", bm |-> bm, wValue |-> wValue, len |-> len, seed |-> seed,
       buf |-> << >>, actual |-> 0, payload |-> << >>] :
        bm \in {0, 64, 128, 192}, wValue \in {0, 258},
        len \in {0, 1, 2, MaxBuf - 2, MaxBuf - 1, MaxBuf, 65536},
        seed \in {1, 254} }

\* controlTransfer up to transfer.submit(buf), with data_or_length of the right
\* kind (bRequest 6, wIndex 0)
CodecSubmit ==
    /\ codec.pc = "args"
    /\ codec' = IF WLengthInRange(codec.len)
                THEN [codec EXCEPT
                        !.pc = "submitted",
                        !.buf = SetupBuffer(codec.bm, 6, codec.wValue, 0, codec.len,
                                            DataBytes(codec.len, codec.seed))]
                ELSE [codec EXCEPT !.pc = "thrown"]
    /\ UNCHANGED << devVars, endpoints, pending, releases, emitted, cancels, nativeLog,
                    calls, reads, bos, hotplug, last >>

\* The native engine completes the transfer and reports actual bytes; for an IN
\* request it has written the bytes it received, at most len, after the setup
\* packet.  The Transfer callback hands buf.slice(SETUP_SIZE, SETUP_SIZE + actual)
\* to the callback of an IN request, and no data to that of an OUT request.
CodecDone(actual) ==
    /\ codec.pc = "submitted"
    /\ LET received == DataBytes(Min(actual, codec.len), codec.seed)
           buf == IF IsInRequest(codec.bm) THEN set(codec.buf, received, SETUP_SIZE)
                  ELSE codec.buf
       IN  codec' = [codec EXCEPT
                        !.pc = "done",
                        !.buf = buf,
                        !.actual = actual,
                        !.payload = IF IsInRequest(codec.bm)
                                    THEN slice(buf, SETUP_SIZE, SETUP_SIZE + actual)
                                    ELSE << >>]
    /\ UNCHANGED << devVars, endpoints, pending, releases, emitted, cancels, nativeLog,
                    calls, reads, bos, hotplug, last >>

\* the values of actual that are tried for a request of len bytes
ActualLengths(len) == {0, 1, len, len + 1, len + SETUP_SIZE} \cup {a \in {len - 1} : a >= 0}

CodecInit ==
    /\ activeConfig = 1 /\ InitDevice
    /\ reads = NoReads /\ bos = NoBos /\ hotplug = NoHotplug
    /\ codec \in CodecArgs

CodecNext ==
    \/ CodecSubmit
    \/ \E actual \in ActualLengths(codec.len) : CodecDone(actual)

CodecSpec == CodecInit /\ [][CodecNext]_vars

(***************************************************************************)
(* getBosDescriptor: the cache test, the two control transfers and the     *)
(* walk over the capability records.  The record bos holds the device's    *)
(* _bosDescriptor and bcdUSB and one record per call.  In a call record pc *)
(* is the position of the call: "idle", "phase1", "phase2" (that transfer  *)
(* is in flight), "parsing" (in the while loop), "resolved", "rejected",   *)
(* or "crashed" when a read past the end of a buffer threw inside a        *)
(* callback, which leaves the promise unsettled.  err1 and err2 are the    *)
(* outcomes of the two transfers, phase2 counts the phase 2 transfers.     *)
(***************************************************************************)

\* the sum of a sequence of numbers
RECURSIVE SumSeq(_)
SumSeq(s) == IF s = << >> THEN 0 ELSE Head(s) + SumSeq(Tail(s))

\* the concatenation of a sequence of sequences
RECURSIVE Flatten(_)
Flatten(ss) == IF ss = << >> THEN << >> ELSE Head(ss) \o Flatten(Tail(ss))

\* buffer.readUInt16LE(off)
readUInt16LE(buf, off) == buf[off + 1] + 256 * buf[off + 2]

\* the bytes of a BOS header that states wTotalLength and bNumDeviceCaps
BosHeader(wTotalLength, bNumDeviceCaps) ==
    << LIBUSB_DT_BOS_SIZE, 15, wTotalLength % 256, wTotalLength \div 256,
       bNumDeviceCaps >>

\* the bytes of a capability record whose first byte is bLength and whose
\* bDevCapabilityType is type; a record that states fewer than 3 bytes still
\* has its 3 byte head
CapabilityBytes(bLength, type) ==
    << bLength, 16, type >> \o [i \in 1..(bLength - 3) |-> 10 * type + i]

\* the bDevCapabilityType values of the records that the device returns
CapabilityTypes == {1, 2}

\* the sequences of at most n elements of S
SeqsUpTo(S, n) == UNION { [1..k -> S] : k \in 0..n }

\* The buffers that a device may return in phase 2: a header followed by
\* capability records, or a buffer that ends before its last record does.
\* Nothing makes the header agree with the records.
BosBuffers ==
    { BosHeader(t, n) \o
        Flatten([k \in 1..Len(r) |-> CapabilityBytes(r[k][1], r[k][2])]) :
        t \in LIBUSB_DT_BOS_SIZE..(LIBUSB_DT_BOS_SIZE + 4 * MaxCaps),
        n \in 0..MaxCaps,
        r \in SeqsUpTo({0, 3, 4} \X CapabilityTypes, MaxCaps) }
    \cup { << LIBUSB_DT_BOS_SIZE, 15, 5 >> }
    \cup { BosHeader(LIBUSB_DT_BOS_SIZE + 4, 1) \o << 4, 16, 1 >> }

\* the buffers of phase 1: the first LIBUSB_DT_BOS_SIZE bytes, or fewer
BosHeaders ==
    { BosHeader(t, 1) : t \in LIBUSB_DT_BOS_SIZE..(LIBUSB_DT_BOS_SIZE + 4 * MaxCaps) }
    \cup { << LIBUSB_DT_BOS_SIZE, 15, 5 >> }

\* the calls of getBosDescriptor / getCapabilities that the model follows at
\* the same time
BosSlots == 1..MaxBosCalls

\* A call that has not been made, or a call at its start.  fn is the function
\* called, late says that the call was made after some call had resolved with
\* a parsed descriptor, obj is the descriptor object the call resolved with
\* (0: none), xfers counts the control transfers the call issued, views the
\* Capability objects that getCapabilities returned.  caps are the first
\* MaxCaps + 1 records pushed by the walk, more counts the further ones
\* modulo 2.
BosCall(fn, pc, result, obj, late) ==
    [fn |-> fn, pc |-> pc, result |-> result, obj |-> obj, late |-> late,
     err1 |-> "none", err2 |-> "none", xfers |-> 0, phase2 |-> 0, total |-> 0,
     buf |-> << >>, wTotalLength |-> 0, bNumDeviceCaps |-> 0, i |-> 0, caps |-> << >>,
     more |-> 0, views |-> << >>]

\* A device with bcdUSB bcd on which no call has been made.  cache holds
\* _bosDescriptor (empty: not set); a descriptor object is named by the call
\* slot that parsed it, and first names the one that was resolved first.
BosDevice(bcd) ==
    [cache |-> << >>, bcd |-> bcd, first |-> 0,
     call |-> [s \in BosSlots |-> BosCall("none", "idle", "none", 0, FALSE)]]

\* an error handler that rejects whatever the error is
onTransferErrorRejects(outcome) == "rejected"

\* if (error.errno === usb.LIBUSB_TRANSFER_STALL) return resolve(null);
\* return reject(error);
onTransferError(outcome) == IF outcome = "stall" THEN "resolved" ELSE "rejected"

\* if (this._bosDescriptor) return this._bosDescriptor
CachedBosDescriptor(cache) == cache

\* a version test that lets every device through
BosSupportedAlways(bcd) == TRUE

\* !(this.deviceDescriptor.bcdUSB < 0x201)
BosSupported(bcd) == ~(bcd < BcdUsb201)

\* the capability object that the walk builds from the record at offset i
CapabilityDescriptor(buf, i) ==
    [bLength |-> buf[i + 1],
     bDescriptorType |-> buf[i + 2],
     bDevCapabilityType |-> buf[i + 3],
     dev_capability_data |-> slice(buf, i + 3, i + buf[i + 1])]

\* the bLength fields of a list of capability objects
bLengths(caps) == [k \in 1..Len(caps) |-> caps[k].bLength]

\* new Capability(device, id): the entry id of the capabilities of the
\* device's _bosDescriptor, its type and its data
Capability(cache, id) ==
    LET descriptor == cache[1].caps[id + 1]
    IN  [id |-> id, type |-> descriptor.bDevCapabilityType,
         data |-> descriptor.dev_capability_data]

\* getCapabilities after its await: one Capability per entry of the
\* capabilities of the descriptor that getBosDescriptor resolved with
\* (<< >>: null), none for null; cache is the device's _bosDescriptor then.
\* A call of getBosDescriptor itself returns no Capability.
CapabilityViews(fn, descriptor, cache) ==
    LET len == IF descriptor # << >> THEN Len(descriptor[1].caps) ELSE 0
    IN  IF fn = "getCapabilities"
        THEN [k \in 1..len |-> Capability(cache, k - 1)]
        ELSE << >>

\* The walk runs inside one callback, which runs to its end before any other
\* callback or call: while a call is in the loop nothing else happens.
NoWalkRunning == \A t \in DOMAIN bos.call : bos.call[t].pc # "parsing"

\* DeviceExtensions.getBosDescriptor() up to its first await point, called
\* directly (fn = "getBosDescriptor") or by getCapabilities, in call slot s
GetBosDescriptor(s, fn) ==
    /\ NoWalkRunning
    /\ bos.call[s].pc \in {"idle", "resolved", "rejected"}
    /\ LET late == bos.first # 0
           hit == CachedBosDescriptor(bos.cache)
       IN  bos' = [bos EXCEPT !.call[s] =
                IF hit # << >>
                THEN [BosCall(fn, "resolved", "cached", hit[1].id, late)
                          EXCEPT !.views = CapabilityViews(fn, hit, bos.cache)]
                ELSE IF ~BosSupported(bos.bcd)
                THEN [BosCall(fn, "resolved", "null", 0, late)
                          EXCEPT !.views = CapabilityViews(fn, << >>, bos.cache)]
                ELSE [BosCall(fn, "phase1", "none", 0, late) EXCEPT !.xfers = 1]]
    /\ UNCHANGED << devVars, endpoints, pending, releases, emitted, cancels, nativeLog,
                    calls, reads, codec, hotplug, last >>

\* The callback of the first transfer, which asked for LIBUSB_DT_BOS_SIZE bytes.
\* Without an error it reads totalLength and issues the second transfer.
BosPhase1Done(s, outcome, buffer) ==
    /\ NoWalkRunning
    /\ bos.call[s].pc = "phase1"
    /\ bos' = [bos EXCEPT !.call[s] =
              IF outcome # "ok"
              THEN [@ EXCEPT !.pc = onTransferError(outcome), !.err1 = outcome,
                             !.result = IF onTransferError(outcome) = "resolved"
                                        THEN "null" ELSE "error",
                             !.views = CapabilityViews(bos.call[s].fn, << >>, bos.cache)]
              ELSE IF Len(buffer) < 4
              THEN [@ EXCEPT !.pc = "crashed", !.err1 = "ok"]
              ELSE [@ EXCEPT !.pc = "phase2", !.err1 = "ok", !.phase2 = @ + 1,
                             !.xfers = @ + 1,
                             !.total = readUInt16LE(buffer, 2)]]
    /\ UNCHANGED << devVars, endpoints, pending, releases, emitted, cancels, nativeLog,
                    calls, reads, codec, hotplug, last >>

\* The callback of the second transfer, which asked for totalLength bytes, up
\* to the while loop: without an error it reads the header fields.
BosPhase2Done(s, outcome, buffer) ==
    /\ NoWalkRunning
    /\ bos.call[s].pc = "phase2"
    /\ Len(buffer) <= bos.call[s].total
    /\ bos' = [bos EXCEPT !.call[s] =
              IF outcome # "ok"
              THEN [@ EXCEPT !.pc = onTransferError(outcome), !.err2 = outcome,
                             !.result = IF onTransferError(outcome) = "resolved"
                                        THEN "null" ELSE "error",
                             !.views = CapabilityViews(bos.call[s].fn, << >>, bos.cache)]
              ELSE IF Len(buffer) < LIBUSB_DT_BOS_SIZE
              THEN [@ EXCEPT !.pc = "crashed", !.err2 = "ok"]
              ELSE [@ EXCEPT !.pc = "parsing", !.err2 = "ok", !.buf = buffer,
                             !.wTotalLength = readUInt16LE(buffer, 2),
                             !.bNumDeviceCaps = buffer[5],
                             !.i = LIBUSB_DT_BOS_SIZE]]
    /\ UNCHANGED << devVars, endpoints, pending, releases, emitted, cancels, nativeLog,
                    calls, reads, codec, hotplug, last >>

\* while (i < descriptor.wTotalLength)
WalkContinues(i, wTotalLength, buf) == i < wTotalLength

\* One test of while (i < descriptor.wTotalLength) in call slot s: either one
\* more capability record is read at i and pushed, and i advances by its
\* bLength, or the loop ends, the descriptor is cached and the promise resolves
\* with it, and a getCapabilities call goes on to make its Capability objects
\* from the cache that was just set.  The descriptor keeps the buffer, which
\* the dev_capability_data slices share.  A loop that does not
\* advance pushes records without end: the model keeps the first MaxCaps + 1
\* of them and goes on counting.
BosParseStep(s) ==
    LET c == bos.call[s]
    IN  /\ c.pc = "parsing"
        /\ IF WalkContinues(c.i, c.wTotalLength, c.buf)
           THEN bos' = [bos EXCEPT !.call[s] =
                            IF c.i + 3 > Len(c.buf)
                            THEN [c EXCEPT !.pc = "crashed"]
                            ELSE IF Len(c.caps) <= MaxCaps
                            THEN [c EXCEPT !.caps =
                                               Append(@, CapabilityDescriptor(c.buf, c.i)),
                                           !.i = @ + c.buf[c.i + 1]]
                            ELSE [c EXCEPT !.more = (@ + 1) % 2,
                                           !.i = @ + c.buf[c.i + 1]]]
           ELSE LET descriptor == << [id |-> s,
                                      wTotalLength |-> c.wTotalLength,
                                      bNumDeviceCaps |-> c.bNumDeviceCaps,
                                      caps |-> c.caps,
                                      buf |-> c.buf] >>
                IN  bos' = [bos EXCEPT
                            !.call[s] = [c EXCEPT !.pc = "resolved",
                                                  !.result = "descriptor",
                                                  !.obj = s,
                                                  !.views = CapabilityViews(c.fn, descriptor,
                                                                            descriptor)],
                            !.cache = descriptor,
                            !.first = IF @ = 0 THEN s ELSE @]
        /\ UNCHANGED << devVars, endpoints, pending, releases, emitted, cancels,
                        nativeLog, calls, reads, codec, hotplug, last >>

BosInit ==
    /\ activeConfig = 1 /\ InitDevice
    /\ reads = NoReads /\ codec = NoCodec /\ hotplug = NoHotplug
    /\ \E bcd \in {BcdUsb201 - 1, BcdUsb201} : bos = BosDevice(bcd)

TransferOutcomes == {"ok", "stall", "error"}

BosFunctions == {"getBosDescriptor", "getCapabilities"}

\* BosSpec: calls made one after the other, each made when the one before has
\* settled, with every buffer of BosBuffers as the answer of the device.
BosNext ==
    \/ \E fn \in BosFunctions : GetBosDescriptor(1, fn)
    \/ \E outcome \in TransferOutcomes, buffer \in BosHeaders :
            BosPhase1Done(1, outcome, buffer)
    \/ \E outcome \in TransferOutcomes, buffer \in BosBuffers :
            BosPhase2Done(1, outcome, buffer)
    \/ BosParseStep(1)

BosSpec == BosInit /\ [][BosNext]_vars

\* The walk is straight-line code inside a callback: once entered it keeps
\* running.
BosFairness == WF_vars(BosParseStep(1))

BosFairSpec == BosSpec /\ BosFairness

\* the answers of a device whose BOS descriptor is well formed: no capability,
\* or one capability of 3 bytes
GoodBosBuffers ==
    { BosHeader(LIBUSB_DT_BOS_SIZE, 0),
      BosHeader(LIBUSB_DT_BOS_SIZE + 3, 1) \o CapabilityBytes(3, 1) }

\* BosOverlapSpec: calls that may overlap, a call being made while another has
\* not settled, on a device that answers with a well formed descriptor.
BosOverlapNext ==
    \E s \in BosSlots :
        \/ \E fn \in BosFunctions : GetBosDescriptor(s, fn)
        \/ \E outcome \in TransferOutcomes, buffer \in GoodBosBuffers :
                BosPhase1Done(s, outcome, SubSeq(buffer, 1, LIBUSB_DT_BOS_SIZE))
        \/ \E outcome \in TransferOutcomes, buffer \in GoodBosBuffers :
                BosPhase2Done(s, outcome, buffer)
        \/ BosParseStep(s)

BosOverlapSpec == BosInit /\ [][BosOverlapNext]_vars

(***************************************************************************)
(* Hotplug notifications: the 'newListener' and 'removeListener' handlers  *)
(* that the module puts on usb.                                            *)
(***************************************************************************)

\* a handler that counts the listeners of every event name
onNewListenerAnyName(h, name) ==
    [h EXCEPT !.count = @ + 1,
              !.called = IF h.count + 1 = 1 THEN "enable" ELSE "none",
              !.enabled = IF h.count + 1 = 1 THEN TRUE ELSE @,
              !.lastCall = IF h.count + 1 = 1 THEN "enable" ELSE @]

\* usb.on('newListener', function (name) { ... }):
\* if (name !== 'attach' && name !== 'detach') return;
\* if (++hotplugListeners === 1) usb._enableHotplugEvents()
onNewListener(h, name) ==
    IF name # "attach" /\ name # "detach" THEN [h EXCEPT !.called = "none"]
    ELSE [h EXCEPT !.count = @ + 1,
                   !.called = IF h.count + 1 = 1 THEN "enable" ELSE "none",
                   !.enabled = IF h.count + 1 = 1 THEN TRUE ELSE @,
                   !.lastCall = IF h.count + 1 = 1 THEN "enable" ELSE @]

\* usb.on('removeListener', function (name) { ... }):
\* if (name !== 'attach' && name !== 'detach') return;
\* if (--hotplugListeners === 0) usb._disableHotplugEvents()
onRemoveListener(h, name) ==
    IF name # "attach" /\ name # "detach" THEN [h EXCEPT !.called = "none"]
    ELSE [h EXCEPT !.count = @ - 1,
                   !.called = IF h.count - 1 = 0 THEN "disable" ELSE "none",
                   !.enabled = IF h.count - 1 = 0 THEN FALSE ELSE @,
                   !.lastCall = IF h.count - 1 = 0 THEN "disable" ELSE @]

\* usb.on(name, listener) / usb.once(name, listener): the emitter emits
\* 'newListener' and adds the listener
AddListener(name) ==
    /\ hotplug.on[name] < MaxListeners
    /\ hotplug' = [onNewListener(hotplug, name) EXCEPT !.on[name] = @ + 1]
    /\ UNCHANGED << devVars, endpoints, pending, releases, emitted, cancels, nativeLog,
                    calls, reads, codec, bos, last >>

\* usb.removeListener(name, listener) of a listener that is on usb, or a once
\* listener that fires: the emitter removes it and emits 'removeListener'.
\* Removing a listener that is not on usb emits nothing.
RemoveListener(name) ==
    /\ hotplug.on[name] > 0
    /\ hotplug' = [onRemoveListener(hotplug, name) EXCEPT !.on[name] = @ - 1]
    /\ UNCHANGED << devVars, endpoints, pending, releases, emitted, cancels, nativeLog,
                    calls, reads, codec, bos, last >>

HotplugInit ==
    /\ activeConfig = 1 /\ InitDevice
    /\ reads = NoReads /\ codec = NoCodec /\ bos = NoBos /\ hotplug = NoHotplug

HotplugNext ==
    \/ \E name \in EventNames : AddListener(name)
    \/ \E name \in EventNames : RemoveListener(name)

HotplugSpec == HotplugInit /\ [][HotplugNext]_vars

(***************************************************************************)
(* Properties of the streaming pool.                                       *)
(***************************************************************************)

\* the last step was a transferDone that emitted 'end'
EndFired ==
    /\ last.op = "transferDone"
    /\ Len(emitted) > 0
    /\ emitted[Len(emitted)].type = "end"

NumEvents(type, src) ==
    Cardinality({k \in 1..Len(emitted) : emitted[k].type = type /\ emitted[k].src = src})

\* C1: after stopPoll() on an Active pool with N >= 1 transfers in flight, and
\* with every in-flight transfer completing, 'end' eventually fires; it fires at
\* most once per session, and when it fires pollPending is 0 and pollTransfers
\* has been deleted.
C1_StopLeadsToOneEnd ==
    /\ [](\A e \in ObjIds : endpoints[e].ends <= 1)
    /\ [](EndFired => /\ endpoints[last.e].pollPending = 0
                      /\ endpoints[last.e].pollTransfers = 0)
    /\ \A e \in ObjIds :
         (endpoints[e].userStop >= 1 /\ endpoints[e].pollTransfers # 0)
            ~> (EndFired /\ last.e = e /\ endpoints[e].ends = 1)

\* C1 witness: 'end' fired for a pool that stopPoll() found Active with two or
\* more transfers in flight
C1_Witness ==
    /\ EndFired
    /\ endpoints[last.e].userStop >= 2
    /\ endpoints[last.e].ends = 1

\* C2: an Active pool has exactly N transfers in flight, each with a buffer of
\* pollTransferSize bytes, and a successful completion on an Active pool emits
\* exactly one 'data' event of actualLength bytes, first; when nothing else is
\* emitted (the resubmission was accepted) the same transfer is in flight again
\* with a fresh buffer of pollTransferSize bytes and the pool is still Active.
C2_ActiveKeepsN ==
    /\ \A e \in ObjIds :
         PoolState(endpoints[e]) = "active" =>
            /\ NumInFlight(endpoints[e]) = endpoints[e].pollTransfers
            /\ endpoints[e].pollPending = endpoints[e].pollTransfers
            /\ \A i \in 1..Len(endpoints[e].xfer) :
                 endpoints[e].xfer[i].len = endpoints[e].pollTransferSize
    /\ (last.op = "transferDone" /\ last.res = "ok" /\ last.pre = "active") =>
            /\ Len(emitted) >= 1
            /\ emitted[1] = Ev("data", "transfer", last.arg)
            /\ NumEvents("data", "transfer") = 1
            /\ Len(emitted) = 1 =>
                 /\ PoolState(endpoints[last.e]) = "active"
                 /\ endpoints[last.e].xfer[last.i] =
                        [st |-> "flight", len |-> endpoints[last.e].pollTransferSize]

\* C2 witness: a successful completion of a pool of two or more transfers that
\* was resubmitted
C2_Witness ==
    /\ last.op = "transferDone" /\ last.res = "ok" /\ last.pre = "active"
    /\ last.arg >= 1
    /\ Len(emitted) = 1
    /\ endpoints[last.e].pollTransfers >= 2

\* C3: a completion with an error other than cancelled on an Active pool emits
\* the 'error' event of that completion, once and first, does not resubmit the
\* transfer, calls cancel() on every transfer of the pool and leaves the pool
\* not Active (Draining, or Idle with 'end' emitted when it was the last one).
C3_ErrorDrains ==
    (last.op = "transferDone" /\ last.res = "error" /\ last.pre = "active") =>
        /\ Len(emitted) >= 1
        /\ emitted[1] = Ev("error", "transfer", 0)
        /\ NumEvents("error", "transfer") = 1
        /\ NumEvents("data", "transfer") = 0
        /\ endpoints[last.e].alive =>
             /\ endpoints[last.e].xfer[last.i].st = "idle"
             /\ cancels = Len(endpoints[last.e].xfer)
             /\ \A i \in 1..Len(endpoints[last.e].xfer) :
                  endpoints[last.e].xfer[i].st = "flight"
                     => NumEvents("error", "cancel") >= 1
             /\ ~endpoints[last.e].pollActive
             /\ PoolState(endpoints[last.e]) = "draining" \/ EndFired

\* C3 witness: an error completion on an Active pool with another transfer still
\* in flight
C3_Witness ==
    /\ last.op = "transferDone" /\ last.res = "error" /\ last.pre = "active"
    /\ PoolState(endpoints[last.e]) = "draining"
    /\ NumInFlight(endpoints[last.e]) >= 1

\* C4: once 'end' has fired in a session the endpoint has no pool and none of
\* its transfers is in flight, 'end' is the last event of the step that emits
\* it, and a step emits events only for an endpoint that had a pool before it,
\* or by starting a new session.
C4_NoEventAfterEnd ==
    /\ \A e \in ObjIds :
         endpoints[e].ends >= 1 =>
            /\ endpoints[e].pollTransfers = 0
            /\ NumInFlight(endpoints[e]) = 0
    /\ \A e \in ObjIds :
         endpoints[e].pollTransfers = 0 => NumInFlight(endpoints[e]) = 0
    /\ \A k \in 1..Len(emitted) : emitted[k].type = "end" => k = Len(emitted)
    /\ (Len(emitted) > 0 /\ last.op # "startPoll") => last.pre # "idle"

\* C4 witness: 'end' fired after a 'data' event that followed stopPoll()
C4_Witness ==
    /\ EndFired
    /\ last.res = "ok"
    /\ last.pre = "draining"
    /\ endpoints[last.e].ends = 1

\* C6: startPoll on an endpoint that has a pool (Active or Draining) throws and
\* changes no Endpoint object, emits nothing, cancels and submits nothing; on
\* an endpoint without a pool it succeeds and the endpoint has a pool.
C6_StartPollOnlyInIdle ==
    [][last'.op = "startPoll" =>
        IF endpoints[last'.e].pollTransfers # 0
        THEN /\ last'.res = "throw"
             /\ endpoints' = endpoints
             /\ emitted' = << >>
             /\ cancels' = 0
        ELSE /\ last'.res = "ok"
             /\ endpoints'[last'.e].pollTransfers = PoolSize(last'.arg)]_vars

\* C6 witness: startPoll threw on a Draining pool
C6_Witness ==
    /\ last.op = "startPoll" /\ last.res = "throw" /\ last.pre = "draining"

C5_ReleaseWaitsForEnd ==
    \A j \in 1..Len(nativeLog) :
        (nativeLog[j].fn = "releaseInterface" /\ nativeLog[j].close) =>
            /\ nativeLog[j].owed = {}
            /\ \A e \in nativeLog[j].owed : NumInFlight(endpoints[e]) = 0

\* C5, the case that the code handles: release(true) on an interface with an
\* Active pool issued the native release in the step that emitted the 'end' of
\* that pool
C5_Witness ==
    /\ EndFired
    /\ Len(nativeLog) = 1
    /\ nativeLog[1].fn = "releaseInterface" /\ nativeLog[1].close
    /\ nativeLog[1].owed = {}

\* the endpoints that the descriptor of configuration cfg declares under
\* (interface index id, alternate setting alt); none when it has no such entry
DeclaredEndpoints(cfg, id, alt) ==
    IF HasDescriptor(cfg, id, alt)
    THEN ConfigDescriptors[cfg].interfaces[id + 1][alt + 1].endpoints
    ELSE << >>

\* C10 as claimed: in every state of an opened device, each Interface lists
\* exactly the endpoints that the descriptor of the active configuration
\* declares under (interface index, current altSetting): same count, order and
\* addresses.
C10_EndpointsMatchDescriptor ==
    opened =>
        \A k \in 1..Len(interfaces) :
            LET decl == DeclaredEndpoints(activeConfig, interfaces[k].id,
                                          interfaces[k].altSetting)
            IN  /\ HasDescriptor(activeConfig, interfaces[k].id, interfaces[k].altSetting)
                /\ Len(interfaces[k].endpoints) = Len(decl)
                /\ \A j \in 1..Len(decl) :
                     endpoints[interfaces[k].endpoints[j]].address
                        = decl[j].bEndpointAddress

\* C10, the case that the code handles: setAltSetting(1) succeeded and the
\* Interface lists the one endpoint of alternate setting 1, none of the two of
\* alternate setting 0
C10_Witness ==
    /\ last.op = "setAltSettingDone" /\ last.res = "ok" /\ last.arg = 1
    /\ Len(interfaces[last.i].endpoints) = 1
    /\ endpoints[interfaces[last.i].endpoints[1]].address = 130
    /\ C10_EndpointsMatchDescriptor

(***************************************************************************)
(* Properties of the single transfers.                                     *)
(***************************************************************************)

\* C8 as claimed, for the single transfers: when the submit of a submission
\* threw and the caller gave a callback, the failure is delivered to that
\* callback: once the submission is done the callback has been invoked with
\* the exception of submit.
C8_SubmitFailureDelivered ==
    \A c \in 1..Len(calls) :
        (calls[c].threw /\ calls[c].userCb /\ calls[c].st = "done") =>
            (calls[c].invoked = 1 /\ calls[c].got = "submit")

\* C8, the case that the code handles: the submit of an OutEndpoint.transfer
\* with a callback threw and the callback was given the exception
C8_Witness ==
    \E c \in 1..Len(calls) :
        /\ calls[c].path = "out" /\ calls[c].zlp = "no"
        /\ calls[c].threw /\ calls[c].st = "done"
        /\ calls[c].invoked = 1 /\ calls[c].got = "submit"

\* a call of controlTransfer, InEndpoint.transfer or OutEndpoint.transfer that
\* was given a callback and returned normally
WithCallback(c) == IF c \in 1..Len(calls) THEN calls[c].cb ELSE FALSE

\* the callback of call c has been invoked, once, and the call is done
CalledBack(c) ==
    IF c \in 1..Len(calls) THEN calls[c].st = "done" /\ calls[c].invoked = 1 ELSE FALSE

\* C9: a call of controlTransfer, InEndpoint.transfer or OutEndpoint.transfer
\* with a callback that returned normally invokes the callback never more than
\* once, has not invoked it while the transfer is in flight or the tick is
\* scheduled, has invoked it exactly once when it is done, from the tick if and
\* only if submit threw, and it eventually is done.
C9_OneCallback ==
    /\ [](\A c \in 1..MaxCalls :
            WithCallback(c) =>
                /\ calls[c].invoked = (IF calls[c].st = "done" THEN 1 ELSE 0)
                /\ calls[c].st = "tick" => calls[c].threw
                /\ calls[c].st = "flight" => ~calls[c].threw
                /\ calls[c].st = "done" => (calls[c].got = "submit" <=> calls[c].threw)
                /\ ~calls[c].fault)
    /\ \A c \in 1..MaxCalls :
            WithCallback(c) ~> CalledBack(c)

\* C9 witness: of two calls with a callback, one was called back from the tick
\* after its submit threw, the other from the native completion
C9_Witness ==
    /\ Len(calls) >= 2
    /\ \E c, d \in 1..Len(calls) :
        /\ calls[c].cb /\ calls[c].threw /\ calls[c].invoked = 1 /\ calls[c].got = "submit"
        /\ calls[d].cb /\ ~calls[d].threw /\ calls[d].invoked = 1 /\ calls[d].got = "ok"

(***************************************************************************)
(* Properties of the configuration descriptor cache.                       *)
(***************************************************************************)

\* C11 as claimed: after a successful setConfiguration(c) the Interface list
\* has one Interface per interface of the now active configuration c, and a
\* read of configDescriptor gives the descriptor of c.
C11_SetConfigurationInvalidates ==
    (last.op = "setConfigurationDone" /\ last.res = "ok") =>
        /\ activeConfig = last.arg
        /\ Len(interfaces) = Len(ConfigDescriptors[activeConfig].interfaces)
        /\ GetConfigDescriptor(configDescriptor, activeConfig) = activeConfig

\* C11, the case that the code handles: setConfiguration to the configuration
\* whose descriptor is cached succeeded
C11_Witness ==
    /\ last.op = "setConfigurationDone" /\ last.res = "ok"
    /\ configDescriptor = activeConfig
    /\ Len(interfaces) = Len(ConfigDescriptors[activeConfig].interfaces)

(***************************************************************************)
(* Properties of the descriptor getters and of the Interface list.         *)
(***************************************************************************)

\* C12: a read of configDescriptor (respectively allConfigDescriptors) that is
\* not the first one since the last configuration change makes no call of the
\* native getter and returns the very object that the read before returned.
C12_ReadsCachedOnce ==
    (last.op \in {"configDescriptor", "allConfigDescriptors"} /\ reads.again) =>
        reads.native = 0 /\ reads.same

\* a second read of configDescriptor answered from the cache
C12_Witness ==
    /\ last.op = "configDescriptor" /\ last.res = "ok"
    /\ reads.again /\ reads.native = 0 /\ reads.same

\* C13: a setConfiguration that the native call fails rejects and leaves the
\* Interface list as it was: the same Interface objects with the same
\* altSettings and the same endpoint lists, and the same Endpoint objects.
C13_FailedSetConfigurationKeepsInterfaces ==
    [][(last'.op = "setConfigurationDone" /\ last'.res = "reject") =>
          /\ \E op \in pending : op.fn = "setConfiguration" /\ op \notin pending'
          /\ interfaces' = interfaces
          /\ endpoints' = endpoints
          /\ activeConfig' = activeConfig
          /\ configDescriptor' = configDescriptor]_vars

\* a setConfiguration was rejected on a device with a claimed list in which an
\* interface is at alternate setting 1
C13_Witness ==
    /\ last.op = "setConfigurationDone" /\ last.res = "reject"
    /\ \E k \in 1..Len(interfaces) : interfaces[k].altSetting = 1

\* C14: interface(n) throws exactly when the device is not open; while the
\* device is open the Interface list has as many entries as the active
\* configuration has interfaces (none for an unconfigured device), and
\* interface(n) returns the first Interface whose interfaceNumber is n, or
\* nothing when there is none.
C14_InterfaceLookup ==
    /\ opened => Len(interfaces) = NumInterfaces(activeConfig)
    /\ last.op = "interface" =>
          /\ last.res = "throw" <=> ~opened
          /\ (last.res = "ok" /\ last.arg >= 0) =>
                IF last.i = 0
                THEN \A k \in 1..Len(interfaces) : interfaces[k].interfaceNumber # last.arg
                ELSE /\ last.i \in 1..Len(interfaces)
                     /\ interfaces[last.i].interfaceNumber = last.arg
                     /\ \A j \in 1..(last.i - 1) : interfaces[j].interfaceNumber # last.arg

\* a lookup on a closed device threw, and a lookup on an open one found the
\* second Interface of the list
C14_Witness ==
    /\ last.op = "interface"
    /\ \/ last.res = "throw" /\ ~opened
       \/ last.res = "ok" /\ last.i = 2

(***************************************************************************)
(* Properties of the argument checks and of the usage errors.              *)
(***************************************************************************)

\* the wrong kind of data_or_length for the direction: a byte buffer for an IN
\* request, a size for an OUT request
WrongKind(isIn, kind) ==
    IF isIn THEN kind \in {"buffer", "numericBuffer"} ELSE kind = "size"

\* the invocations of callbacks made so far
Invocations(cs) == [c \in 1..Len(cs) |-> cs[c].invoked]

\* C15: a controlTransfer with the wrong kind of data_or_length for its
\* direction throws a TypeError from the call; it creates and submits no
\* Transfer, and it invokes no callback, whether one is given or not.
C15_WrongKindThrows ==
    [][\A isIn, cb, throws \in BOOLEAN, kind \in ArgKinds :
          (WrongKind(isIn, kind) /\ ControlTransfer(isIn, kind, cb, throws)) =>
              /\ last'.res = "TypeError"
              /\ calls' = calls
              /\ Invocations(calls') = Invocations(calls)
              /\ nativeLog' = << >>]_vars

\* a controlTransfer OUT threw the TypeError while an earlier call was still
\* in flight
C15_Witness ==
    /\ last.op = "controlTransfer" /\ last.res = "TypeError" /\ last.arg = 0
    /\ Len(calls) = 1 /\ calls[1].st = "flight"

\* C16: a call of startPoll, stopPoll, controlTransfer or interface that fails
\* with a usage error fails by throwing from the call itself ("throw", or
\* "TypeError" for the argument checks), never by a rejected promise.
C16_UsageErrorsThrown ==
    (last.op \in {"startPoll", "stopPoll", "controlTransfer", "interface"}
        /\ last.res # "ok") =>
            last.res \in {"throw", "TypeError"}

\* startPoll on an endpoint whose pool is active threw from the call
C16_Witness ==
    last.op = "startPoll" /\ last.res = "throw" /\ last.pre = "active"

(***************************************************************************)
(* Properties of the submitted buffers.                                    *)
(***************************************************************************)

\* the lengths of the buffers submitted by the last step, in order
SubmittedLengths ==
    [i \in 1..Len(nativeLog) |-> IF nativeLog[i].fn = "submit" THEN nativeLog[i].arg ELSE -1]

\* C17: transferWithZLP of a buffer whose length is a multiple of the
\* endpoint's wMaxPacketSize makes exactly two submissions, the data buffer and
\* then a buffer of length 0; of any other buffer it makes exactly one, the
\* data buffer.
C17_ZLPSubmissions ==
    last.op = "transferWithZLP" =>
        LET len == last.arg
            w == endpoints[last.e].wMaxPacketSize
        IN  IF \E k \in 0..len : len = k * w
            THEN SubmittedLengths = << len, 0 >>
            ELSE SubmittedLengths = << len >>

\* a transferWithZLP of a full packet made its two submissions
C17_Witness ==
    /\ last.op = "transferWithZLP" /\ last.arg = endpoints[last.e].wMaxPacketSize
    /\ Len(nativeLog) = 2

\* C18: the buffer submitted for a control OUT transfer of a data buffer of L
\* bytes has L + 8 bytes, its bytes 6 and 7 hold L with the low byte first, and
\* the data follow from offset 8.  The payload handed to the callback of a
\* control IN transfer that asked for n bytes is the start of what follows the
\* 8 byte setup packet in the buffer, and it is never longer than n, whatever
\* length the engine reports.
C18_ControlBufferLayout ==
    /\ (codec.pc = "submitted" /\ codec.bm < 128) =>
          /\ Len(codec.buf) = codec.len + 8
          /\ codec.buf[7] + 256 * codec.buf[8] = codec.len
          /\ \A i \in 1..codec.len :
                codec.buf[8 + i] = DataBytes(codec.len, codec.seed)[i]
    /\ (codec.pc = "done" /\ codec.bm >= 128) =>
          /\ Len(codec.payload) <= codec.len
          /\ Len(codec.payload) = Min(codec.actual, codec.len)
          /\ \A i \in 1..Len(codec.payload) : codec.payload[i] = codec.buf[8 + i]

\* an IN transfer that asked for more than 255 bytes completed with more bytes
\* reported than asked for
C18_Witness ==
    /\ codec.pc = "done" /\ codec.bm >= 128
    /\ codec.len > 255 /\ codec.actual > codec.len
    /\ codec.buf[8] = 1

(***************************************************************************)
(* Properties of getBosDescriptor.                                         *)
(***************************************************************************)

\* C19: when the transfer of either phase of getBosDescriptor fails, a STALL
\* resolves the promise with null and any other error rejects it with that
\* error; after a failure of phase 1 no phase 2 transfer has been issued, and
\* after a failure of either phase _bosDescriptor is still unset.
C19_BosTransferErrors ==
    \A s \in DOMAIN bos.call :
        LET c == bos.call[s]
        IN  /\ c.err1 \in {"stall", "error"} =>
                  /\ c.phase2 = 0 /\ c.err2 = "none" /\ c.xfers = 1
                  /\ bos.cache = << >>
                  /\ IF c.err1 = "stall"
                     THEN c.pc = "resolved" /\ c.result = "null"
                     ELSE c.pc = "rejected" /\ c.result = "error"
            /\ c.err2 \in {"stall", "error"} =>
                  /\ c.phase2 = 1 /\ c.err1 = "ok"
                  /\ bos.cache = << >>
                  /\ IF c.err2 = "stall"
                     THEN c.pc = "resolved" /\ c.result = "null"
                     ELSE c.pc = "rejected" /\ c.result = "error"

\* the second transfer of a call was stalled
C19_Witness ==
    \E s \in DOMAIN bos.call :
        /\ bos.call[s].pc = "resolved" /\ bos.call[s].err2 = "stall"
        /\ bos.call[s].result = "null"
        /\ bos.call[s].total > LIBUSB_DT_BOS_SIZE

\* C20: a descriptor that getBosDescriptor resolves with has as many capability
\* records as its bNumDeviceCaps says, and 5 plus the sum of their bLength is
\* its wTotalLength.
C20_BosConsistency ==
    \A s \in DOMAIN bos.call :
        (bos.call[s].pc = "resolved" /\ bos.call[s].result = "descriptor") =>
            /\ Len(bos.call[s].caps) = bos.call[s].bNumDeviceCaps
            /\ 5 + SumSeq(bLengths(bos.call[s].caps)) = bos.call[s].wTotalLength

\* a buffer with two capability records that agrees with its header was parsed
C20_Witness ==
    \E s \in DOMAIN bos.call :
        /\ bos.call[s].pc = "resolved" /\ bos.call[s].result = "descriptor"
        /\ Len(bos.call[s].caps) = 2 /\ bos.call[s].bNumDeviceCaps = 2
        /\ 5 + SumSeq(bLengths(bos.call[s].caps)) = bos.call[s].wTotalLength

\* C21: a call of getBosDescriptor or getCapabilities that is made after a call
\* has resolved with a parsed descriptor resolves with that same descriptor
\* object, taken from the cache, and issues no control transfer.
C21_BosCacheStable ==
    \A s \in DOMAIN bos.call :
        LET c == bos.call[s]
        IN  (c.late /\ c.pc \notin {"idle", "none"}) =>
                /\ c.pc = "resolved" /\ c.result = "cached"
                /\ c.obj = bos.first
                /\ c.xfers = 0

\* a getCapabilities call made after the descriptor was parsed resolved from
\* the cache and made one Capability
C21_Witness ==
    \E s \in DOMAIN bos.call :
        /\ bos.call[s].late /\ bos.call[s].pc = "resolved"
        /\ bos.call[s].fn = "getCapabilities"
        /\ bos.call[s].result = "cached" /\ bos.call[s].obj = bos.first
        /\ Len(bos.call[s].views) = 1

\* C22: on a device whose bcdUSB is below 0x0201 and that has no cached BOS
\* descriptor, getBosDescriptor resolves with null and issues no control
\* transfer.
C22_OldDeviceResolvesNull ==
    \A s \in DOMAIN bos.call :
        LET c == bos.call[s]
        IN  (bos.bcd < 513 /\ c.fn # "none") =>
                /\ bos.cache = << >>
                /\ c.pc = "resolved" /\ c.result = "null"
                /\ c.xfers = 0

\* getBosDescriptor was called on a device with bcdUSB 0x0200
C22_Witness ==
    /\ bos.bcd = 512
    /\ \E s \in DOMAIN bos.call :
        /\ bos.call[s].fn = "getBosDescriptor"
        /\ bos.call[s].pc = "resolved" /\ bos.call[s].result = "null"

\* C30: a call that has entered the capability walk leaves it and its promise
\* settles, whatever buffer and wTotalLength the second phase returned.
C30_WalkTerminates ==
    (bos.call[1].pc = "parsing") ~> (bos.call[1].pc \in {"resolved", "rejected"})

\* the walk over a buffer with records of 3 and 4 bytes ended
C30_Witness ==
    /\ bos.call[1].pc = "resolved" /\ bos.call[1].result = "descriptor"
    /\ bLengths(bos.call[1].caps) = << 3, 4 >>

(***************************************************************************)
(* Properties of the hotplug notifications.                                *)
(***************************************************************************)

\* C23: the native notifications are on exactly when usb has an 'attach' or
\* 'detach' listener, and the counter is the number of these listeners (never
\* negative); enable is called only by the step that adds the first such
\* listener and disable only by the step that removes the last one, so that
\* the calls alternate, starting with enable; adding or removing a listener of
\* another event changes nothing.
C23_HotplugEnabledIffListeners ==
    [][LET n == hotplug.on["attach"] + hotplug.on["detach"]
           n1 == hotplug'.on["attach"] + hotplug'.on["detach"]
       IN  /\ hotplug'.count = n1 /\ hotplug'.count >= 0
           /\ hotplug'.enabled <=> n1 > 0
           /\ hotplug'.called = "enable" <=> (n = 0 /\ n1 = 1)
           /\ hotplug'.called = "disable" <=> (n = 1 /\ n1 = 0)
           /\ hotplug'.called # "none" =>
                 /\ hotplug'.lastCall # hotplug.lastCall
                 /\ hotplug.lastCall = "none" => hotplug'.called = "enable"
           /\ n1 = n => /\ hotplug'.count = hotplug.count
                        /\ hotplug'.enabled = hotplug.enabled
                        /\ hotplug'.called = "none"]_vars

\* the last hotplug listener was removed while listeners of other events stay,
\* and the notifications were switched off
C23_Witness ==
    /\ hotplug.called = "disable" /\ ~hotplug.enabled /\ hotplug.count = 0
    /\ hotplug.on["error"] > 0

(***************************************************************************)
(* Properties of the pool when submit or cancel throws.                    *)
(***************************************************************************)

\* the last step was a startPoll or a completion on Endpoint object e in which
\* a submit threw: it emitted the 'error' event of that submit
SubmitFailed(e) ==
    /\ last.e = e /\ last.op \in {"startPoll", "transferDone"}
    /\ NumEvents("error", "submit") >= 1

\* C24: when a submit throws while a pool is started or a transfer is
\* resubmitted, an 'error' event is emitted and the pool is no longer Active;
\* with every accepted transfer completing, the endpoint comes back to Idle
\* ('end' is emitted and startPoll is possible again).
C24_SubmitFailureEndsSession ==
    \A e \in ObjIds :
        SubmitFailed(e) ~> (PoolState(endpoints[e]) = "idle")

\* a resubmission threw and left the pool Draining
C24_Witness ==
    /\ last.op = "transferDone" /\ SubmitFailed(last.e)
    /\ PoolState(endpoints[last.e]) = "draining"
    /\ ~endpoints[last.e].pollActive

\* C25: whenever an IN endpoint has a pool, pollPending is the number of its
\* transfers that are in flight.
C25_PendingCountsInFlight ==
    \A e \in ObjIds :
        (endpoints[e].alive /\ endpoints[e].pollTransfers # 0) =>
            endpoints[e].pollPending = NumInFlight(endpoints[e])

\* a Draining pool of two transfers of which one has completed
C25_Witness ==
    \E e \in ObjIds :
        /\ endpoints[e].alive /\ PoolState(endpoints[e]) = "draining"
        /\ Len(endpoints[e].xfer) >= 2
        /\ endpoints[e].pollPending = 1 /\ NumInFlight(endpoints[e]) = 1

\* C26: a completion with the cancelled error does not resubmit the transfer
\* and emits no 'error' event, in whatever state the pool is.
C26_CancelledNotResubmitted ==
    (last.op = "transferDone" /\ last.res = "cancelled" /\ endpoints[last.e].alive) =>
        /\ endpoints[last.e].xfer[last.i].st = "idle"
        /\ \A k \in 1..Len(emitted) : emitted[k].type # "error"

\* a cancelled completion arrived on a Draining pool
C26_Witness ==
    /\ last.op = "transferDone" /\ last.res = "cancelled" /\ last.pre = "draining"
    /\ endpoints[last.e].alive
    /\ endpoints[last.e].xfer[last.i].st = "idle"

\* C27: stopPoll() on an Active pool calls cancel() on every transfer of the
\* pool; each cancel that throws gives one 'error' event, and every transfer
\* that is left without a cancel request is one whose cancel threw; the pool
\* is no longer active, and a completion that arrives on a pool that is not
\* active does not resubmit.
C27_StopPollCancelsAll ==
    /\ (last.op = "stopPoll" /\ last.pre = "active") =>
          LET ep == endpoints[last.e]
          IN  /\ last.res = "ok"
              /\ cancels = Len(ep.xfer)
              /\ ~ep.pollActive
              /\ \A i \in 1..Len(ep.xfer) : ep.xfer[i].st \in {"flight", "cancelling"}
              /\ Cardinality({i \in 1..Len(ep.xfer) : ep.xfer[i].st = "flight"})
                    <= Len(emitted)
              /\ Len(emitted) <= Len(ep.xfer)
              /\ \A k \in 1..Len(emitted) : emitted[k] = Ev("error", "cancel", 0)
    /\ (last.op = "transferDone" /\ last.pre = "draining" /\ endpoints[last.e].alive) =>
          endpoints[last.e].xfer[last.i].st = "idle"

\* stopPoll() on an Active pool of three transfers, the cancel of one of which
\* threw
C27_Witness ==
    /\ last.op = "stopPoll" /\ last.pre = "active"
    /\ Len(endpoints[last.e].xfer) = 3
    /\ Len(emitted) = 1
    /\ \E i \in 1..2 : endpoints[last.e].xfer[i].st = "flight"
                        /\ endpoints[last.e].xfer[i + 1].st = "cancelling"

(***************************************************************************)
(* Properties of the Interface objects and their native calls.             *)
(***************************************************************************)

\* C28: every Endpoint object that has a pool, Active or Draining, is in the
\* endpoint list of an Interface of the device.
C28_PollingEndpointsListed ==
    \A e \in ObjIds :
        (endpoints[e].alive /\ PoolState(endpoints[e]) # "idle") =>
            e \in Listed(interfaces)

\* an endpoint with an Active pool that its Interface, at alternate setting 0,
\* lists
C28_Witness ==
    \E k \in 1..Len(interfaces) :
        /\ interfaces[k].altSetting = 0
        /\ \E j \in 1..Len(interfaces[k].endpoints) :
              PoolState(endpoints[interfaces[k].endpoints[j]]) = "active"

\* the native calls that are made through an Interface object
InterfaceNativeCalls ==
    SyncInterfaceCalls \cup {"releaseInterface", "setInterfaceAltSetting"}

\* C29: a native call made through an Interface object carries the
\* interfaceNumber of that object, the number by which Device.interface(n)
\* finds it.
C29_NativeCallsCarryInterfaceNumber ==
    \A j \in 1..Len(nativeLog) :
        nativeLog[j].fn \in InterfaceNativeCalls =>
            \E k \in 1..Len(interfaces) :
                /\ interfaces[k].id = nativeLog[j].id
                /\ interfaces[k].interfaceNumber = nativeLog[j].id

\* claim() on an Interface whose number is its position in the list
C29_Witness ==
    /\ last.op = "claimInterface" /\ Len(nativeLog) = 1
    /\ interfaces[last.i].interfaceNumber = nativeLog[1].id
    /\ last.i = 2

(***************************************************************************)
(* Properties of the Capability objects.                                   *)
(***************************************************************************)

\* The offsets in buf of the capability records of a BOS descriptor: the first
\* is at LIBUSB_DT_BOS_SIZE, each next one bLength bytes after the one before,
\* as long as the offset is below wTotalLength.  n bounds the number of records.
RECURSIVE RecordOffsets(_, _, _, _)
RecordOffsets(buf, off, wTotalLength, n) ==
    IF n = 0 \/ off >= wTotalLength \/ off >= Len(buf)
    THEN << >>
    ELSE << off >> \o RecordOffsets(buf, off + buf[off + 1], wTotalLength, n - 1)

\* C31: getCapabilities yields one Capability per capability record of the BOS
\* descriptor, in the order of the records, the i-th with type equal to byte 2
\* of the i-th record and data equal to the bytes from 3 up to bLength of that
\* record; when getBosDescriptor resolves with null it yields the empty list.
C31_CapabilitiesMatchRecords ==
    \A s \in DOMAIN bos.call :
        LET c == bos.call[s]
        IN  (c.fn = "getCapabilities" /\ c.pc = "resolved") =>
                /\ c.result = "null" => c.views = << >>
                /\ c.result \in {"descriptor", "cached"} =>
                    LET buf == bos.cache[1].buf
                        offs == RecordOffsets(buf, LIBUSB_DT_BOS_SIZE,
                                              readUInt16LE(buf, 2), Len(buf))
                    IN  /\ Len(c.views) = Len(offs)
                        /\ \A k \in 1..Len(offs) :
                            /\ c.views[k].type = buf[offs[k] + 3]
                            /\ Len(c.views[k].data) =
                                 IF buf[offs[k] + 1] > 3 THEN buf[offs[k] + 1] - 3 ELSE 0
                            /\ \A j \in 1..Len(c.views[k].data) :
                                    c.views[k].data[j] = buf[offs[k] + 3 + j]

\* getCapabilities resolved with two Capability objects of different types,
\* the first without data, the second with one data byte
C31_Witness ==
    /\ bos.call[1].fn = "getCapabilities" /\ bos.call[1].pc = "resolved"
    /\ bos.call[1].result = "descriptor"
    /\ Len(bos.call[1].views) = 2
    /\ bos.call[1].views[1].type = 2 /\ bos.call[1].views[1].data = << >>
    /\ bos.call[1].views[2].type = 1 /\ bos.call[1].views[2].data = << 11 >>

====
